---- MODULE Spec2Model ----
(***************************************************************************)
(* The GPU batch router.  Worker side: the heap-based PriorityQueue, the   *)
(* Batcher loop (collect / execute / drain) and the Worker.Infer RPC       *)
(* handler.  Router side: the Registry of worker entries, the Poller, the  *)
(* Score function, pickBestWorker and the retry loop of Router.Infer.      *)
(*                                                                         *)
(* Specifications:                                                         *)
(*   QSpec    - goroutines calling Enqueue / DequeueN / Depth directly;    *)
(*              the queue mutex is explicit and every heap.Pop of          *)
(*              DequeueN is a step of its own;                             *)
(*   Spec     - the worker: RPC handlers, the batcher goroutine, the       *)
(*              executor and Stop.  A queue call is one step there (it     *)
(*              runs under the queue mutex);                               *)
(*   LiveSpec - Spec with the fairness of the Go scheduler;                *)
(*   RouterSpec   - the router process: router.New, the poller, concurrent *)
(*              Router.Infer calls; workers and network are environment;   *)
(*   RegistrySpec - the Registry's exported methods called in any order,   *)
(*              and pickBestWorker on the state they leave;                *)
(*   SelectSpec - pickBestWorker as a function of the registry: any health *)
(*              flags and telemetry on MaxEndpoints entries, one pick.     *)
(*                                                                         *)
(* Wall-clock time is not modelled: a timer may expire at any moment, and  *)
(* the latency fields of a response (LatencyNs, QueueWaitMs, AvgLatencyMs) *)
(* are left out.                                                           *)
(***************************************************************************)
EXTENDS Integers, Sequences, FiniteSets, TLC

\* ---------------------------------------------------------------- bounds
MaxReq == 3            \* QSpec: number of PendingRequests ever enqueued
MaxInfer == 2          \* Spec: number of Worker.Infer calls
MaxTs == 2             \* QSpec: client timestamps are drawn from 1..MaxTs
MaxBatchBound == 3     \* cfg.MaxBatchSize is drawn from 1..MaxBatchBound
MaxN == 3              \* QSpec: DequeueN arguments are drawn from 0..MaxN
NumQProcs == 2         \* QSpec: number of goroutines
NotifyCap == 1         \* capacity of the notify channel, scaled down from
                       \* make(chan struct{}, 256) to what MaxReq can fill

NumWorkers == 2        \* router: number of configured worker endpoints
MaxCalls == 1          \* RouterSpec: number of Router.Infer calls
MaxPolls == 3          \* RouterSpec: number of pollAll rounds
MaxOps == 5            \* RegistrySpec: number of registry calls
MaxServed == 3         \* StatsSpec: Router.Infer calls made one after the other
MaxEndpoints == 4      \* SelectSpec: number of registry entries

Reqs == 1..(IF MaxReq > MaxInfer THEN MaxReq ELSE MaxInfer)
Infers == 1..MaxInfer
QProcs == 1..NumQProcs
Timestamps == 1..MaxTs

\* pb.Priority: LOW, MEDIUM, HIGH ("higher priority number = dequeued first")
Priority_LOW == 0
Priority_MEDIUM == 1
Priority_HIGH == 2
Priorities == {Priority_LOW, Priority_MEDIUM, Priority_HIGH}

\* config.Load: MAX_WAIT_MS default, in milliseconds
MaxWaitTime == 50

Min(a, b) == IF a < b THEN a ELSE b

Occ(r, s) == Cardinality({i \in 1..Len(s) : s[i] = r})

VARIABLES
    \* --- PendingRequest fields Req.Priority and Req.Timestamp, set on creation
    rPrio, rTs,
    \* --- PriorityQueue
    items,          \* pq.items, the heap array (sequence of request ids)
    mu,             \* pq.mu: 0 = unlocked, else the QSpec goroutine holding it
    \* --- QSpec goroutines: pc, method, argument, locals
    q,
    \* --- history of the queue
    enqCount,       \* [Reqs -> Nat] how often each request was pushed
    deqCount,       \* [Reqs -> Nat] how often DequeueN returned each request
    \* --- Worker.Infer handlers
    hpc,            \* "new", "enq" (enqueued, Signal pending), "wait", "ret"
    doneCh, errCh,  \* the two buffered channels of each PendingRequest
    outcome,        \* what Infer returned
    \* --- Batcher
    MaxBatchSize,   \* cfg.MaxBatchSize
    bpc,            \* position of the batcher goroutine
    draining,       \* executeBatch was called from drainRemaining
    notify,         \* number of values buffered in b.notify
    stopCh,         \* TRUE once close(b.stopCh) ran
    timer,          \* the collect timer: "off", "armed", "fired"
    batch,          \* the batch being collected / executed
    payloads,       \* the array handed to ExecuteBatch
    execRet,        \* what ExecuteBatch returned: [results, err]
    idx,            \* loop index of the result distribution
    inflight,       \* ExecuteBatch calls entered and not yet returned
    currentWait,    \* b.currentWait in ms
    TotalBatches, TotalRequests, LastBatchSize,
    \* --- history of the batcher
    sent,           \* [Reqs -> Seq] every value written to a request's slots
    execCount,      \* [Reqs -> Nat] how often a request was passed to ExecuteBatch
    ran             \* the ExecuteBatch calls that returned: requests, payloads, return

qvars == <<rPrio, rTs, items, mu, q, enqCount, deqCount>>

wvars == <<hpc, doneCh, errCh, outcome, MaxBatchSize, bpc, draining, notify,
           stopCh, timer, batch, payloads, execRet, idx, inflight, currentWait,
           TotalBatches, TotalRequests, LastBatchSize, sent, execCount, ran>>

VARIABLES
    \* --- Registry: the fields of each WorkerEntry, by endpoint
    Healthy,        \* entry.Healthy
    FailCount,      \* entry.FailCount
    Metrics,        \* entry.Metrics, the cached telemetry
    InferClient,    \* entry.InferClient # nil (MetricsClient is set with it)
    rpc,            \* router lifecycle: "new", "connected", "serving", "stopped"
    \* --- Poller
    ppc,            \* poller goroutine: "unstarted", "idle", "polling", "stopped"
    polling,        \* the GetMetrics RPCs in flight, as <<round, worker>>
    pollRounds,     \* pollAll rounds started so far
    applied,        \* per worker, the round of the poll result applied last
    lastPoll,       \* per worker, what its last completed poll did
    \* --- Router.Infer calls: pc, locals, and the forwards made so far
    call,
    routingDistribution,
    totalRequests,
    \* --- RegistrySpec: calls made so far, and the last selection
    ops,
    lastPick,
    \* --- RaceSpec: the UpdateMetrics call that holds r.mu, and what the last
    \* broadcastState read of one entry, with the entry before and after that call
    upd,
    view

tvars == <<upd, view>>

rvars == <<Healthy, FailCount, Metrics, InferClient, rpc, ppc, polling,
           pollRounds, lastPoll, call, routingDistribution, totalRequests,
           ops, lastPick, applied, tvars>>

vars == <<qvars, wvars, rvars>>

\* ------------------------------------------------- container/heap on pq.items
\* The heap array is 0-based in the code; At/Swap take 0-based indices.
At(s, i) == s[i + 1]

Swap(s, i, j) == [s EXCEPT ![i + 1] = s[j + 1], ![j + 1] = s[i + 1]]

LessPrioReversed(s, i, j) ==
    IF rPrio[At(s, i)] # rPrio[At(s, j)]
    THEN rPrio[At(s, i)] < rPrio[At(s, j)]
    ELSE rTs[At(s, i)] < rTs[At(s, j)]

LessTsReversed(s, i, j) ==
    IF rPrio[At(s, i)] # rPrio[At(s, j)]
    THEN rPrio[At(s, i)] > rPrio[At(s, j)]
    ELSE rTs[At(s, i)] > rTs[At(s, j)]

\* PriorityQueue.Less: priority descending, then timestamp ascending
Less(s, i, j) ==
    IF rPrio[At(s, i)] # rPrio[At(s, j)]
    THEN rPrio[At(s, i)] > rPrio[At(s, j)]
    ELSE rTs[At(s, i)] < rTs[At(s, j)]

\* Go's (j - 1) / 2 truncates towards zero: the parent of index 0 is 0
Parent(j) == IF j = 0 THEN 0 ELSE (j - 1) \div 2

RECURSIVE up(_, _)
up(s, j) ==
    LET i == Parent(j) IN
    IF i = j \/ ~Less(s, j, i) THEN s
    ELSE up(Swap(s, i, j), i)

RECURSIVE down(_, _, _)
down(s, i, n) ==
    LET j1 == 2 * i + 1 IN
    IF j1 >= n THEN s
    ELSE LET j2 == j1 + 1
             j  == IF j2 < n /\ Less(s, j2, j1) THEN j2 ELSE j1
         IN IF ~Less(s, j, i) THEN s
            ELSE down(Swap(s, i, j), j, n)

\* heap.Push(pq, x): pq.Push appends, then up(len-1)
HeapPush(s, x) == up(Append(s, x), Len(s))

\* heap.Pop(pq): swap root and last, sift the new root down over the first
\* n elements, then pq.Pop removes and returns the last element.
HeapSifted(s) == down(Swap(s, 0, Len(s) - 1), 0, Len(s) - 1)

HeapPopItem(s) == HeapSifted(s)[Len(s)]

HeapPopRestKeepsLast(s) == HeapSifted(s)

HeapPopRest(s) == SubSeq(HeapSifted(s), 1, Len(s) - 1)

\* count := n; if count > len(pq.items) { count = len(pq.items) }
DequeueCountShort(n, len) == IF n >= len THEN len - 1 ELSE n

DequeueCount(n, len) == IF n > len THEN len ELSE n

RECURSIVE PopLoopPrepends(_, _, _)
PopLoopPrepends(s, res, k) ==
    IF k = 0 \/ s = <<>> THEN <<res, s>>
    ELSE PopLoopPrepends(HeapPopRest(s), <<HeapPopItem(s)>> \o res, k - 1)

\* The whole of DequeueN as run under the mutex: <<result, remaining items>>
RECURSIVE PopLoop(_, _, _)
PopLoop(s, res, k) ==
    IF k = 0 \/ s = <<>> THEN <<res, s>>
    ELSE PopLoop(HeapPopRest(s), Append(res, HeapPopItem(s)), k - 1)

DequeueN(s, n) ==
    IF Len(s) = 0 THEN <<(<<>>), s>>
    ELSE PopLoop(s, <<>>, DequeueCount(n, Len(s)))

Enqueue(s, r) == HeapPush(s, r)

Depth(s) == Len(s)


\* Which requests exist: ids are handed out in increasing order (an id names
\* a freshly allocated PendingRequest, so the order is immaterial).
QUsed(r) == enqCount[r] > 0 \/ \E p \in QProcs : q[p].op = "Enqueue" /\ q[p].arg = r

\* State shared by every specification: the empty queue of NewPriorityQueue
QueueInit ==
    /\ rPrio = [r \in Reqs |-> Priority_LOW]
    /\ rTs = [r \in Reqs |-> 1]
    /\ items = <<>>
    /\ mu = 0
    /\ enqCount = [r \in Reqs |-> 0]
    /\ deqCount = [r \in Reqs |-> 0]

QIdle == [pc |-> "idle", op |-> "none", arg |-> 0, left |-> 0, res |-> <<>>, d0 |-> 0]

\* The error object the k-th ExecuteBatch call returns when it fails (both
\* executors build a new error value in the failing call)
ErrorOf(k) == [call |-> k]

\* the nil error
NoError == [call |-> 0]

TimerOff == [st |-> "off", d |-> 0]

\* State after worker.New: NewPriorityQueue, NewBatcher; no request yet
WorkerInit ==
    /\ hpc = [r \in Reqs |-> "new"]
    /\ doneCh = [r \in Reqs |-> <<>>]
    /\ errCh = [r \in Reqs |-> <<>>]
    /\ outcome = [r \in Reqs |-> [kind |-> "none", val |-> [none |-> TRUE]]]
    /\ bpc = "unstarted"
    /\ draining = FALSE
    /\ notify = 0
    /\ stopCh = FALSE
    /\ timer = TimerOff
    /\ batch = <<>>
    /\ payloads = <<>>
    /\ execRet = [results |-> <<>>, err |-> NoError]
    /\ idx = 0
    /\ inflight = 0
    /\ currentWait = MaxWaitTime
    /\ TotalBatches = 0
    /\ TotalRequests = 0
    /\ LastBatchSize = 0
    /\ sent = [r \in Reqs |-> <<>>]
    /\ execCount = [r \in Reqs |-> 0]
    /\ ran = <<>>

\* --------------------------------------------------------------- Registry
\* cfg.WorkerEndpoints
Workers == 1..NumWorkers

Calls == 1..MaxCalls

\* MarkFailed: "After 3 consecutive failures, the worker is marked unhealthy"
FailThreshold == 3

\* Router.Infer: "Try up to 3 times (original + 2 retries)"
maxRetries == 3

\* pickBestWorker: "Take top-3 (or fewer if less available)"
topN == 3

\* A *pb.WorkerMetrics.  VRAM is in tenths of a GB; nil is the nil pointer.
Telemetry(h, free, total, depth, lat, util, temp) ==
    [nil |-> FALSE, Healthy |-> h, VramFreeGb |-> free, VramTotalGb |-> total,
     QueueDepth |-> depth, AvgLatencyMs |-> lat, GpuUtilization |-> util,
     TemperatureC |-> temp]

NilMetrics ==
    [nil |-> TRUE, Healthy |-> FALSE, VramFreeGb |-> 0, VramTotalGb |-> 0,
     QueueDepth |-> 0, AvgLatencyMs |-> 0, GpuUtilization |-> 0,
     TemperatureC |-> 0]

\* NewRegistry: Metrics{Healthy: true, VramFreeGb: 5.0, VramTotalGb: 5.0}
InitialMetrics == Telemetry(TRUE, 50, 50, 0, 0, 0, 0)

\* What a worker of this repository answers to GetMetrics: Healthy is always
\* true; an idle worker (0.8 GB used, 42 C) and a loaded, hot one
WorkerTelemetry ==
    {Telemetry(TRUE, 42, 50, 0, 0, 0, 42), Telemetry(TRUE, 20, 50, 20, 30, 90, 81)}

\* Any WorkerMetrics message UpdateMetrics may be handed
AnyTelemetry == WorkerTelemetry \cup {Telemetry(FALSE, 42, 50, 0, 0, 0, 42)}

\* Score(m), in tenths of a point (the code computes it in float64; the
\* telemetry above makes every term a whole number of tenths)
Score(m) ==
    IF m.nil \/ ~m.Healthy
    THEN -1000 * 10
    ELSE (IF m.VramTotalGb > 0 THEN (m.VramFreeGb * 1000) \div m.VramTotalGb ELSE 0)
         - m.QueueDepth
         - m.AvgLatencyMs
         - m.GpuUtilization * 5
         - (IF m.TemperatureC > 80 THEN 500 ELSE 0)

\* State after NewRegistry(cfg.WorkerEndpoints)
\* r.mu is free; nothing has been broadcast yet
NoUpdate == [st |-> "idle", w |-> 0, m |-> InitialMetrics]

NoEntry == [Healthy |-> FALSE, Metrics |-> InitialMetrics]

NoView == [w |-> 0, seen |-> NoEntry, before |-> NoEntry, after |-> NoEntry]

NewRegistry ==
    /\ Healthy = [w \in Workers |-> TRUE]
    /\ FailCount = [w \in Workers |-> 0]
    /\ Metrics = [w \in Workers |-> InitialMetrics]
    /\ InferClient = [w \in Workers |-> FALSE]

\* Registry.Connect: grpc.NewClient fails for the endpoints in failed
Connect(failed) ==
    /\ Healthy' = [w \in Workers |-> IF w \in failed THEN FALSE ELSE Healthy[w]]
    /\ InferClient' = [w \in Workers |-> IF w \in failed THEN InferClient[w] ELSE TRUE]
    /\ UNCHANGED <<FailCount, Metrics>>

\* Registry.GetHealthy
GetHealthy == {w \in DOMAIN Healthy : Healthy[w] /\ InferClient[w]}

\* Registry.UpdateMetrics(addr, m)
UpdateMetricsKeepsHealth(w, m) ==
    /\ Metrics' = [Metrics EXCEPT ![w] = m]
    /\ FailCount' = [FailCount EXCEPT ![w] = 0]
    /\ UNCHANGED <<Healthy, InferClient>>

UpdateMetricsKeepsCount(w, m) ==
    /\ Metrics' = [Metrics EXCEPT ![w] = m]
    /\ Healthy' = [Healthy EXCEPT ![w] = m.Healthy]
    /\ UNCHANGED <<FailCount, InferClient>>

UpdateMetricsUpserts(w, m) ==
    /\ Metrics' = [x \in DOMAIN Metrics \cup {w} |-> IF x = w THEN m ELSE Metrics[x]]
    /\ FailCount' = [x \in DOMAIN FailCount \cup {w} |->
                        IF x = w THEN 0 ELSE FailCount[x]]
    /\ Healthy' = [x \in DOMAIN Healthy \cup {w} |->
                      IF x = w THEN m.Healthy ELSE Healthy[x]]
    /\ UNCHANGED InferClient

\* if w, ok := r.workers[addr]; ok { ... }
Known(w) == w \in DOMAIN Healthy

UpdateMetrics(w, m) ==
    IF Known(w)
    THEN /\ Metrics' = [Metrics EXCEPT ![w] = m]
         /\ FailCount' = [FailCount EXCEPT ![w] = 0]
         /\ Healthy' = [Healthy EXCEPT ![w] = m.Healthy]
         /\ UNCHANGED InferClient
    ELSE UNCHANGED <<Metrics, FailCount, Healthy, InferClient>>

\* MarkFailed: if w.FailCount >= 3
ReachedThresholdLate(n) == n > FailThreshold

ReachedThreshold(n) == n >= FailThreshold

\* Registry.MarkFailed(addr)
MarkFailedSetsFlag(w) ==
    /\ FailCount' = [FailCount EXCEPT ![w] = @ + 1]
    /\ Healthy' = [Healthy EXCEPT ![w] = ~ReachedThreshold(FailCount[w] + 1)]
    /\ UNCHANGED <<Metrics, InferClient>>

MarkFailed(w) ==
    IF Known(w)
    THEN /\ FailCount' = [FailCount EXCEPT ![w] = @ + 1]
         /\ Healthy' = [Healthy EXCEPT ![w] =
                           IF ReachedThreshold(FailCount[w] + 1) THEN FALSE ELSE @]
         /\ UNCHANGED <<Metrics, InferClient>>
    ELSE UNCHANGED <<Metrics, FailCount, Healthy, InferClient>>

\* Registry.MarkHealthy(addr)
MarkHealthyKeepsCount(w) ==
    /\ Healthy' = [Healthy EXCEPT ![w] = TRUE]
    /\ UNCHANGED <<FailCount, Metrics, InferClient>>

MarkHealthy(w) ==
    IF Known(w)
    THEN /\ FailCount' = [FailCount EXCEPT ![w] = 0]
         /\ Healthy' = [Healthy EXCEPT ![w] = TRUE]
         /\ UNCHANGED <<Metrics, InferClient>>
    ELSE UNCHANGED <<Metrics, FailCount, Healthy, InferClient>>

\* pickBestWorker on the snapshot healthy: the candidates sorted by score,
\* cut to the first topN (ties fall either way: sort.Slice is not stable and
\* the map is walked in random order).  Every one of them has weight
\* score - minScore + 1 >= 1, so the weighted pick can return any of them.
TopSetsUncut(healthy) == {healthy}

TopSets(healthy) ==
    {T \in SUBSET healthy :
        /\ Cardinality(T) = Min(topN, Cardinality(healthy))
        /\ \A a \in T, b \in healthy \ T : Score(Metrics[a]) >= Score(Metrics[b])}

WeightUnshifted(w, T) ==
    Score(Metrics[w]) - (CHOOSE m \in {Score(Metrics[x]) : x \in T} :
                            \A x \in T : m <= Score(Metrics[x]))

Weight(w, T) ==
    Score(Metrics[w]) - (CHOOSE m \in {Score(Metrics[x]) : x \in T} :
                            \A x \in T : m <= Score(Metrics[x])) + 1 * 10

\* top := candidates[:topN] after the descending sort: the orders in which
\* the candidates T can stand (equal scores in either order)
Orders(T) ==
    {top \in [1..Cardinality(T) -> T] :
        \A i, j \in 1..Cardinality(T) :
            i < j => /\ top[i] # top[j]
                     /\ Score(Metrics[top[i]]) >= Score(Metrics[top[j]])}

\* weights[i] = c.score - minScore + 1 for the candidates in top
Weights(top, T) == [i \in 1..Len(top) |-> Weight(top[i], T)]

\* cumulative after the loop has added weights[0..i-1]
RECURSIVE Cumulative(_, _)
Cumulative(weights, i) ==
    IF i = 0 THEN 0 ELSE Cumulative(weights, i - 1) + weights[i]

\* totalWeight
TotalWeight(weights) == Cumulative(weights, Len(weights))

\* for i, w := range weights { cumulative += w; if r_ <= cumulative { return
\* top[i].worker } }; return top[0].worker
WeightedPick(top, weights, r) ==
    LET hit == {i \in 1..Len(top) : r <= Cumulative(weights, i)} IN
    IF hit = {} THEN top[1]
    ELSE top[CHOOSE i \in hit : \A j \in hit : i <= j]

\* r_ := rand.Float64() * totalWeight lies in [0, totalWeight).  The pick
\* changes only where r_ passes a cumulative sum, so r_ is drawn at 0, at
\* each cumulative sum and just past it.
Draws(weights) ==
    {r \in {0} \cup UNION {{Cumulative(weights, i), Cumulative(weights, i) + 1} :
                              i \in 1..Len(weights)} : r < TotalWeight(weights)}

\* The workers pickBestWorker can return on the snapshot healthy
Pickable(healthy) ==
    UNION {UNION {LET weights == Weights(top, T)
                  IN {WeightedPick(top, weights, r) : r \in Draws(weights)} :
                     top \in Orders(T)} : T \in TopSets(healthy)}

\* No forward yet
NoForward == [w |-> 0, out |-> "none", marked |-> FALSE, reset |-> FALSE]

\* A Router.Infer call: its pc, the locals attempt, worker (with healthy, the
\* snapshot inside pickBestWorker) and lastErr, whether ctx is done, what it
\* returned, and what it has done so far: noneHealthy, whether every entry
\* was unhealthy when it arrived; snapOk, whether every worker of each of
\* its snapshots had a fail-count below the threshold at that moment; prev,
\* the worker of its forward before this one; last, its last completed forward; forwards and marks,
\* the forwards it has sent and the MarkFailed calls it has made
NoCall ==
    [pc |-> "idle", attempt |-> 0, healthy |-> {}, worker |-> 0,
     lastErr |-> "nil", ctxDone |-> FALSE, noneHealthy |-> FALSE,
     snapOk |-> TRUE, prev |-> 0, last |-> NoForward, forwards |-> 0, marks |-> 0,
     ret |-> [kind |-> "none", from |-> 0, err |-> "nil"],
     \* the calls that returned before this one, and those of them that succeeded
     doneCalls |-> 0, okCalls |-> 0]

\* lastPoll: what the last successful poll of a worker that was unhealthy
\* at that moment left behind
PollOutcome(healthy, fails, eligible) ==
    IF healthy /\ fails = 0 /\ eligible THEN "healed" ELSE "stuck"

NoPick == [worker |-> 0, score |-> 0]

\* State after NewRegistry and before the router exists further
RouterNew ==
    /\ NewRegistry
    /\ rpc = "new"
    /\ ppc = "unstarted"
    /\ polling = {}
    /\ pollRounds = 0
    /\ applied = [w \in Workers |-> 0]
    /\ upd = NoUpdate
    /\ view = NoView
    /\ lastPoll = [w \in Workers |-> "none"]
    /\ call = [c \in Calls |-> NoCall]
    /\ routingDistribution = [w \in Workers |-> 0]
    /\ totalRequests = 0
    /\ ops = 0
    /\ lastPick = NoPick

\* ------------------------------------------------------------------ QSpec
\* Goroutines that call the queue's three exported methods concurrently.
QInit ==
    /\ QueueInit
    /\ WorkerInit
    /\ RouterNew
    /\ MaxBatchSize = 1
    /\ q = [p \in QProcs |-> QIdle]

\* pq.mu.Lock()
LockGuard(m) == m = 0

\* Enqueue(req) on a fresh PendingRequest: pq.mu.Lock()
QLockEnqueue(p) ==
    /\ q[p].pc = "idle"
    /\ LockGuard(mu)
    /\ mu' = p
    /\ \E r \in Reqs, pr \in Priorities, t \in Timestamps :
        /\ ~QUsed(r)
        /\ \A r2 \in Reqs : r2 < r => QUsed(r2)
        /\ rPrio' = [rPrio EXCEPT ![r] = pr]
        /\ rTs' = [rTs EXCEPT ![r] = t]
        /\ q' = [q EXCEPT ![p] = [QIdle EXCEPT !.pc = "body", !.op = "Enqueue",
                                               !.arg = r, !.d0 = Len(items)]]
    /\ UNCHANGED <<rvars, items, enqCount, deqCount, wvars>>

\* DequeueN(n): pq.mu.Lock()
QLockDequeueN(p) ==
    /\ q[p].pc = "idle"
    /\ LockGuard(mu)
    /\ mu' = p
    /\ \E n \in 0..MaxN :
        q' = [q EXCEPT ![p] = [QIdle EXCEPT !.pc = "body", !.op = "DequeueN",
                                            !.arg = n, !.d0 = Len(items)]]
    /\ UNCHANGED <<rvars, rPrio, rTs, items, enqCount, deqCount, wvars>>

\* Depth(): pq.mu.Lock()
QLockDepth(p) ==
    /\ q[p].pc = "idle"
    /\ LockGuard(mu)
    /\ mu' = p
    /\ q' = [q EXCEPT ![p] = [QIdle EXCEPT !.pc = "body", !.op = "Depth",
                                        !.d0 = Len(items)]]
    /\ UNCHANGED <<rvars, rPrio, rTs, items, enqCount, deqCount, wvars>>

\* Enqueue body: heap.Push(pq, req)
QEnqueueBody(p) ==
    /\ q[p].pc = "body" /\ q[p].op = "Enqueue"
    /\ items' = Enqueue(items, q[p].arg)
    /\ enqCount' = [enqCount EXCEPT ![q[p].arg] = @ + 1]
    /\ q' = [q EXCEPT ![p].pc = "unlock"]
    /\ UNCHANGED <<rvars, rPrio, rTs, mu, deqCount, wvars>>

\* Depth body: return len(pq.items)
QDepthBody(p) ==
    /\ q[p].pc = "body" /\ q[p].op = "Depth"
    /\ q' = [q EXCEPT ![p].pc = "unlock", ![p].res = <<Depth(items)>>]
    /\ UNCHANGED <<rvars, rPrio, rTs, items, mu, enqCount, deqCount, wvars>>

\* DequeueN body, entry: the empty check and the computation of count
QDequeueEntry(p) ==
    /\ q[p].pc = "body" /\ q[p].op = "DequeueN"
    /\ IF Len(items) = 0
       THEN q' = [q EXCEPT ![p].pc = "unlock"]
       ELSE q' = [q EXCEPT ![p].pc = "pop",
                           ![p].left = DequeueCount(q[p].arg, Len(items))]
    /\ UNCHANGED <<rvars, rPrio, rTs, items, mu, enqCount, deqCount, wvars>>

\* DequeueN body, one loop iteration: result = append(result, heap.Pop(pq))
QDequeuePop(p) ==
    /\ q[p].pc = "pop"
    /\ q[p].left > 0
    /\ Len(items) > 0
    /\ q' = [q EXCEPT ![p].res = Append(@, HeapPopItem(items)), ![p].left = @ - 1]
    /\ deqCount' = [deqCount EXCEPT ![HeapPopItem(items)] = @ + 1]
    /\ items' = HeapPopRest(items)
    /\ UNCHANGED <<rvars, rPrio, rTs, mu, enqCount, wvars>>

\* DequeueN body, loop exit (i == count)
QDequeueDone(p) ==
    /\ q[p].pc = "pop"
    /\ q[p].left = 0
    /\ q' = [q EXCEPT ![p].pc = "unlock"]
    /\ UNCHANGED <<rvars, rPrio, rTs, items, mu, enqCount, deqCount, wvars>>

\* deferred pq.mu.Unlock() and return to the caller.  The caller of QSpec
\* drops the returned requests, whose fields are then no longer state.
InSeq(r, s) == \E i \in 1..Len(s) : s[i] = r

QUnlock(p) ==
    /\ q[p].pc = "unlock"
    /\ mu' = IF mu = p THEN 0 ELSE mu
    /\ q' = [q EXCEPT ![p] = QIdle]
    /\ rPrio' = [r \in Reqs |-> IF q[p].op = "DequeueN" /\ InSeq(r, q[p].res)
                                THEN Priority_LOW ELSE rPrio[r]]
    /\ rTs' = [r \in Reqs |-> IF q[p].op = "DequeueN" /\ InSeq(r, q[p].res)
                              THEN 1 ELSE rTs[r]]
    /\ UNCHANGED <<rvars, items, enqCount, deqCount, wvars>>

QNext ==
    \E p \in QProcs :
        \/ QLockEnqueue(p)
        \/ QLockDequeueN(p)
        \/ QLockDepth(p)
        \/ QEnqueueBody(p)
        \/ QDepthBody(p)
        \/ QDequeueEntry(p)
        \/ QDequeuePop(p)
        \/ QDequeueDone(p)
        \/ QUnlock(p)

QSpec == QInit /\ [][QNext]_vars



\* ------------------------------------------------------------------- Spec
\* The worker process: Worker.Infer handlers, the batcher goroutine, Stop.

\* The (priority, timestamp) pairs clients send in Spec
InferInputs == {<<Priority_LOW, 1>>, <<Priority_HIGH, 1>>, <<Priority_LOW, 2>>}

\* Req.Payload and Req.RequestId of request r: every request carries its own
PayloadOf(r) == <<"payload", r>>

RequestId(r) == r

\* pb.Priority.String()
PriorityString(p) ==
    CASE p = Priority_LOW -> "LOW"
      [] p = Priority_MEDIUM -> "MEDIUM"
      [] p = Priority_HIGH -> "HIGH"

\* cfg.WorkerID
WorkerID == "worker-0"

\* The requests the handlers of Spec build before they enqueue them:
\* req := &PendingRequest{Priority: ..., Timestamp: ...}
InferRequests ==
    \E in \in [Infers -> InferInputs] :
        /\ rPrio = [r \in Reqs |-> IF r \in Infers THEN in[r][1] ELSE Priority_LOW]
        /\ rTs = [r \in Reqs |-> IF r \in Infers THEN in[r][2] ELSE 1]

Init ==
    /\ InferRequests
    /\ items = <<>>
    /\ mu = 0
    /\ enqCount = [r \in Reqs |-> 0]
    /\ deqCount = [r \in Reqs |-> 0]
    /\ WorkerInit
    /\ RouterNew
    /\ MaxBatchSize \in 1..MaxBatchBound
    /\ q = [p \in QProcs |-> QIdle]

Started == bpc # "unstarted"

\* Batcher.Start: go b.loop()
Start ==
    /\ bpc = "unstarted"
    /\ bpc' = "wait"
    /\ UNCHANGED <<rvars, qvars, hpc, doneCh, errCh, outcome, MaxBatchSize, draining,
                   notify, stopCh, timer, batch, payloads, execRet, idx, inflight,
                   currentWait, TotalBatches, TotalRequests, LastBatchSize, sent,
                   execCount, ran>>

\* Batcher.Stop: close(b.stopCh); the caller then waits for the loop to exit
Stop ==
    /\ Started
    /\ ~stopCh
    /\ stopCh' = TRUE
    /\ UNCHANGED <<rvars, qvars, hpc, doneCh, errCh, outcome, MaxBatchSize, bpc, draining,
                   notify, timer, batch, payloads, execRet, idx, inflight,
                   currentWait, TotalBatches, TotalRequests, LastBatchSize, sent,
                   execCount, ran>>

\* ---- Worker.Infer
\* The handler builds the PendingRequest (two channels of capacity 1) and
\* calls queue.Enqueue.  The gRPC server is started after StartBatcher.
Infer_Enqueue(r) ==
    /\ Started
    /\ hpc[r] = "new"
    /\ \A r2 \in Infers : r2 < r => hpc[r2] # "new"
    /\ items' = Enqueue(items, r)
    /\ enqCount' = [enqCount EXCEPT ![r] = @ + 1]
    /\ hpc' = [hpc EXCEPT ![r] = "enq"]
    /\ UNCHANGED <<rvars, rPrio, rTs, mu, q, deqCount, doneCh, errCh, outcome, MaxBatchSize, bpc,
                   draining, notify, stopCh, timer, batch, payloads, execRet, idx,
                   inflight, currentWait, TotalBatches, TotalRequests,
                   LastBatchSize, sent, execCount, ran>>

\* Batcher.Signal: select { case b.notify <- struct{}{}: default: }
SignalSend(n) == IF n < NotifyCap THEN n + 1 ELSE n

Infer_Signal(r) ==
    /\ hpc[r] = "enq"
    /\ notify' = SignalSend(notify)
    /\ hpc' = [hpc EXCEPT ![r] = "wait"]
    /\ UNCHANGED <<rvars, qvars, doneCh, errCh, outcome, MaxBatchSize, bpc, draining,
                   stopCh, timer, batch, payloads, execRet, idx, inflight,
                   currentWait, TotalBatches, TotalRequests, LastBatchSize, sent,
                   execCount, ran>>

\* case resp := <-pending.DoneCh: resp.WorkerId = w.cfg.WorkerID; return resp, nil
Infer_Done(r) ==
    /\ hpc[r] = "wait"
    /\ doneCh[r] # <<>>
    /\ outcome' = [outcome EXCEPT ![r] =
                      [kind |-> "result",
                       val |-> [Head(doneCh[r]) EXCEPT !.WorkerId = WorkerID]]]
    /\ doneCh' = [doneCh EXCEPT ![r] = Tail(@)]
    /\ hpc' = [hpc EXCEPT ![r] = "ret"]
    /\ UNCHANGED <<rvars, qvars, errCh, MaxBatchSize, bpc, draining, notify, stopCh,
                   timer, batch, payloads, execRet, idx, inflight, currentWait,
                   TotalBatches, TotalRequests, LastBatchSize, sent, execCount, ran>>

\* case err := <-pending.ErrCh: return nil, err
Infer_Err(r) ==
    /\ hpc[r] = "wait"
    /\ errCh[r] # <<>>
    /\ outcome' = [outcome EXCEPT ![r] = [kind |-> "error", val |-> Head(errCh[r])]]
    /\ errCh' = [errCh EXCEPT ![r] = Tail(@)]
    /\ hpc' = [hpc EXCEPT ![r] = "ret"]
    /\ UNCHANGED <<rvars, qvars, doneCh, MaxBatchSize, bpc, draining, notify, stopCh,
                   timer, batch, payloads, execRet, idx, inflight, currentWait,
                   TotalBatches, TotalRequests, LastBatchSize, sent, execCount, ran>>

\* case <-ctx.Done(): return nil, ctx.Err()  (the client may cancel at any time)
Infer_Cancelled(r) ==
    /\ hpc[r] = "wait"
    /\ outcome' = [outcome EXCEPT ![r] = [kind |-> "cancelled", val |-> [ctx |-> "Err"]]]
    /\ hpc' = [hpc EXCEPT ![r] = "ret"]
    /\ UNCHANGED <<rvars, qvars, doneCh, errCh, MaxBatchSize, bpc, draining, notify,
                   stopCh, timer, batch, payloads, execRet, idx, inflight,
                   currentWait, TotalBatches, TotalRequests, LastBatchSize, sent,
                   execCount, ran>>

\* ---- Batcher.loop
\* case <-b.stopCh: b.drainRemaining(); return
loop_stop ==
    /\ bpc = "wait"
    /\ stopCh
    /\ bpc' = "drain"
    /\ draining' = TRUE
    /\ UNCHANGED <<rvars, qvars, hpc, doneCh, errCh, outcome, MaxBatchSize, notify,
                   stopCh, timer, batch, payloads, execRet, idx, inflight,
                   currentWait, TotalBatches, TotalRequests, LastBatchSize, sent,
                   execCount, ran>>

\* case <-b.notify: then collectBatch starts its timer with b.currentWait
loop_notify ==
    /\ bpc = "wait"
    /\ notify > 0
    /\ notify' = notify - 1
    /\ timer' = [st |-> "armed", d |-> currentWait]
    /\ bpc' = "collect"
    /\ UNCHANGED <<rvars, qvars, hpc, doneCh, errCh, outcome, MaxBatchSize, draining,
                   stopCh, batch, payloads, execRet, idx, inflight, currentWait,
                   TotalBatches, TotalRequests, LastBatchSize, sent, execCount, ran>>

\* The runtime fires the collect timer.  The timer is only ever looked at
\* by the select of collectBatch, so its expiry is taken when the batcher is
\* there (an earlier expiry is seen at the same point).
TimerFire ==
    /\ timer.st = "armed"
    /\ bpc = "select"
    /\ timer' = [timer EXCEPT !.st = "fired"]
    /\ UNCHANGED <<rvars, qvars, hpc, doneCh, errCh, outcome, MaxBatchSize, bpc, draining,
                   notify, stopCh, batch, payloads, execRet, idx, inflight,
                   currentWait, TotalBatches, TotalRequests, LastBatchSize, sent,
                   execCount, ran>>

\* ---- Batcher.collectBatch
\* depth := b.queue.Depth(); if depth >= b.cfg.MaxBatchSize { ... }
collect_depth ==
    /\ bpc = "collect"
    /\ bpc' = IF Depth(items) >= MaxBatchSize THEN "flush" ELSE "select"
    /\ UNCHANGED <<rvars, qvars, hpc, doneCh, errCh, outcome, MaxBatchSize, draining,
                   notify, stopCh, timer, batch, payloads, execRet, idx, inflight,
                   currentWait, TotalBatches, TotalRequests, LastBatchSize, sent,
                   execCount, ran>>

\* loop: batch := b.collectBatch(); if len(batch) == 0 { continue }
AfterCollectUnchecked(b) == "execute"

AfterCollect(b) == IF Len(b) = 0 THEN "wait" ELSE "execute"

\* deqCount after a DequeueN call that returned res
Dequeued(res) == [r \in Reqs |-> deqCount[r] + Occ(r, res)]

\* return b.queue.DequeueN(b.cfg.MaxBatchSize), the deferred timer.Stop(), and
\* the length check of the loop
CollectReturn ==
    LET res == DequeueN(items, MaxBatchSize) IN
    /\ batch' = res[1]
    /\ items' = res[2]
    /\ deqCount' = Dequeued(res[1])
    /\ timer' = TimerOff
    /\ bpc' = AfterCollect(res[1])
    /\ UNCHANGED <<rvars, rPrio, rTs, mu, q, enqCount, hpc, doneCh, errCh, outcome,
                   MaxBatchSize, draining, stopCh, payloads, execRet, idx,
                   inflight, currentWait, TotalBatches, TotalRequests,
                   LastBatchSize, sent, execCount, ran>>

\* the DequeueN that follows a Depth() >= MaxBatchSize
collect_flush ==
    /\ bpc = "flush"
    /\ CollectReturn
    /\ UNCHANGED notify

\* select: case <-b.stopCh
collect_stop ==
    /\ bpc = "select"
    /\ stopCh
    /\ CollectReturn
    /\ UNCHANGED notify

\* select: case <-timer.C
collect_timer ==
    /\ bpc = "select"
    /\ timer.st = "fired"
    /\ CollectReturn
    /\ UNCHANGED notify

\* select: case <-b.notify, then the second Depth() check
collect_notify_reset ==
    /\ bpc = "select"
    /\ notify > 0
    /\ notify' = notify - 1
    /\ timer' = [st |-> "armed", d |-> currentWait]
    /\ bpc' = IF Depth(items) >= MaxBatchSize THEN "flush" ELSE "collect"
    /\ UNCHANGED <<rvars, qvars, hpc, doneCh, errCh, outcome, MaxBatchSize, draining,
                   stopCh, batch, payloads, execRet, idx, inflight,
                   currentWait, TotalBatches, TotalRequests, LastBatchSize, sent,
                   execCount, ran>>

collect_notify ==
    /\ bpc = "select"
    /\ notify > 0
    /\ notify' = notify - 1
    /\ bpc' = IF Depth(items) >= MaxBatchSize THEN "flush" ELSE "collect"
    /\ UNCHANGED <<rvars, qvars, hpc, doneCh, errCh, outcome, MaxBatchSize, draining,
                   stopCh, timer, batch, payloads, execRet, idx, inflight,
                   currentWait, TotalBatches, TotalRequests, LastBatchSize, sent,
                   execCount, ran>>

\* ---- Batcher.executeBatch
\* where the batcher goroutine is after it has called b.exec.ExecuteBatch
AfterCallAsync == "wait"

AfterCall == "executing"

\* payloads[i] = r.Req.Payload; results, err := b.exec.ExecuteBatch(payloads)
executeBatch_call ==
    /\ bpc = "execute"
    /\ payloads' = [i \in 1..Len(batch) |-> PayloadOf(batch[i])]
    /\ inflight' = inflight + 1
    /\ execCount' = [r \in Reqs |-> execCount[r] + Occ(r, batch)]
    /\ bpc' = AfterCall
    /\ UNCHANGED <<rvars, qvars, hpc, doneCh, errCh, outcome, MaxBatchSize, draining,
                   notify, stopCh, timer, batch, execRet, idx, currentWait,
                   TotalBatches, TotalRequests, LastBatchSize, sent, ran>>

\* GPUExecutor.ExecuteBatch: one result per payload, in order, each carrying
\* its batch position and computed from its payload; or a single error
ExecutorReturns(p, k) ==
    {[results |-> [i \in 1..Len(p) |-> [batch_pos |-> i - 1, of |-> p[i]]],
      err |-> NoError],
     [results |-> <<>>, err |-> ErrorOf(k)]}

\* ExecuteBatch returns; the counters are updated
ExecuteBatch_return ==
    /\ bpc = "executing"
    /\ inflight > 0
    /\ \E ret \in ExecutorReturns(payloads, Len(ran) + 1) :
        /\ execRet' = ret
        /\ ran' = Append(ran, [reqs |-> batch, payloads |-> payloads, ret |-> ret])
    /\ inflight' = inflight - 1
    /\ TotalBatches' = TotalBatches + 1
    /\ TotalRequests' = TotalRequests + Len(batch)
    /\ LastBatchSize' = Len(batch)
    /\ idx' = 0
    /\ bpc' = "deliver"
    /\ UNCHANGED <<rvars, qvars, hpc, doneCh, errCh, outcome, MaxBatchSize, draining,
                   notify, stopCh, timer, batch, payloads, currentWait, sent,
                   execCount>>

\* results[i] of the 0-based loop index i
ResultForFirst(results, i) == results[1]

ResultFor(results, i) == results[i + 1]

\* resp := &pb.InferResponse{...} for request r at loop index i
Response(r, i) ==
    [RequestId |-> RequestId(r),
     Result |-> ResultFor(execRet.results, i),
     BatchSize |-> Len(batch),
     PriorityUsed |-> PriorityString(rPrio[r]),
     WorkerId |-> ""]

\* The channel writes executeBatch makes for the request at loop index i
WritesErrToFirstOnly(r, i) ==
    IF execRet.err # NoError
    THEN IF i = 0 THEN <<[slot |-> "err", val |-> execRet.err]>> ELSE <<>>
    ELSE <<[slot |-> "done", val |-> Response(r, i)]>>

WritesBoth(r, i) ==
    IF execRet.err # NoError
    THEN <<[slot |-> "err", val |-> execRet.err], [slot |-> "done", val |-> [nilResponse |-> TRUE]]>>
    ELSE <<[slot |-> "done", val |-> Response(r, i)]>>

Writes(r, i) ==
    IF execRet.err # NoError
    THEN <<[slot |-> "err", val |-> execRet.err]>>
    ELSE <<[slot |-> "done", val |-> Response(r, i)]>>

Vals(w, slot) == SelectSeq(w, LAMBDA x : x.slot = slot)

ValOf(x) == x.val

RECURSIVE MapVal(_)
MapVal(w) == IF w = <<>> THEN <<>> ELSE <<ValOf(Head(w))>> \o MapVal(Tail(w))

\* DoneCh: make(chan *pb.InferResponse, 1), ErrCh: make(chan error, 1)
SlotCap == 1

\* r.ErrCh <- err  /  r.DoneCh <- resp: one iteration of either range loop.
\* A send blocks while the channel (capacity SlotCap) is full.
deliver_send_unbuffered ==
    /\ bpc = "deliver"
    /\ idx < Len(batch)
    /\ LET r == batch[idx + 1]
           w == Writes(r, idx)
       IN /\ hpc[r] = "wait"
          /\ doneCh[r] = <<>> /\ errCh[r] = <<>>
          /\ doneCh' = [doneCh EXCEPT ![r] = @ \o MapVal(Vals(w, "done"))]
          /\ errCh' = [errCh EXCEPT ![r] = @ \o MapVal(Vals(w, "err"))]
          /\ sent' = [sent EXCEPT ![r] = @ \o w]
    /\ idx' = idx + 1
    /\ UNCHANGED <<rvars, qvars, hpc, outcome, MaxBatchSize, bpc, draining, notify,
                   stopCh, timer, batch, payloads, execRet, inflight,
                   currentWait, TotalBatches, TotalRequests, LastBatchSize,
                   execCount, ran>>

deliver_send ==
    /\ bpc = "deliver"
    /\ idx < Len(batch)
    /\ LET r == batch[idx + 1]
           w == Writes(r, idx)
       IN /\ Len(doneCh[r]) + Len(Vals(w, "done")) <= SlotCap
          /\ Len(errCh[r]) + Len(Vals(w, "err")) <= SlotCap
          /\ doneCh' = [doneCh EXCEPT ![r] = @ \o MapVal(Vals(w, "done"))]
          /\ errCh' = [errCh EXCEPT ![r] = @ \o MapVal(Vals(w, "err"))]
          /\ sent' = [sent EXCEPT ![r] = @ \o w]
    /\ idx' = idx + 1
    /\ UNCHANGED <<rvars, qvars, hpc, outcome, MaxBatchSize, bpc, draining, notify,
                   stopCh, timer, batch, payloads, execRet, inflight,
                   currentWait, TotalBatches, TotalRequests, LastBatchSize,
                   execCount, ran>>

\* Batcher.adaptWait: the new currentWait for the observed depth
adaptWait(depth) ==
    IF depth > 100 THEN 20
    ELSE IF depth < 10 THEN 80
    ELSE MaxWaitTime

\* where executeBatch returns to: drainRemaining's loop or Batcher.loop
CallerDrainsOnce == IF draining THEN "exited" ELSE "wait"

Caller == IF draining THEN "drain" ELSE "wait"

\* end of the error loop: return (adaptWait is not reached)
deliver_err_return ==
    /\ bpc = "deliver"
    /\ idx = Len(batch)
    /\ execRet.err # NoError
    /\ bpc' = Caller
    /\ batch' = <<>>
    /\ payloads' = <<>>
    /\ execRet' = [results |-> <<>>, err |-> NoError]
    /\ idx' = 0
    /\ UNCHANGED <<rvars, qvars, hpc, doneCh, errCh, outcome, MaxBatchSize, draining,
                   notify, stopCh, timer, inflight, currentWait, TotalBatches,
                   TotalRequests, LastBatchSize, sent, execCount, ran>>

\* end of the result loop: b.adaptWait(), then return
deliver_ok_return ==
    /\ bpc = "deliver"
    /\ idx = Len(batch)
    /\ execRet.err = NoError
    /\ currentWait' = adaptWait(Depth(items))
    /\ bpc' = Caller
    /\ batch' = <<>>
    /\ payloads' = <<>>
    /\ execRet' = [results |-> <<>>, err |-> NoError]
    /\ idx' = 0
    /\ UNCHANGED <<rvars, qvars, hpc, doneCh, errCh, outcome, MaxBatchSize, draining,
                   notify, stopCh, timer, inflight, TotalBatches, TotalRequests,
                   LastBatchSize, sent, execCount, ran>>

\* ---- Batcher.drainRemaining
\* batch := DequeueN(MaxBatchSize); if len(batch) == 0 { return }; executeBatch
\* (and loop's return after drainRemaining)
drainRemaining_noReturn ==
    /\ bpc = "drain"
    /\ LET res == DequeueN(items, MaxBatchSize) IN
        /\ batch' = res[1]
        /\ items' = res[2]
        /\ deqCount' = Dequeued(res[1])
        /\ bpc' = IF Len(res[1]) = 0 THEN "wait" ELSE "execute"
    /\ UNCHANGED <<rvars, rPrio, rTs, mu, q, enqCount, hpc, doneCh, errCh, outcome,
                   MaxBatchSize, draining, notify, stopCh, timer, payloads,
                   execRet, idx, inflight, currentWait, TotalBatches,
                   TotalRequests, LastBatchSize, sent, execCount, ran>>

drainRemaining ==
    /\ bpc = "drain"
    /\ LET res == DequeueN(items, MaxBatchSize) IN
        /\ batch' = res[1]
        /\ items' = res[2]
        /\ deqCount' = Dequeued(res[1])
        /\ bpc' = IF Len(res[1]) = 0 THEN "exited" ELSE "execute"
    /\ UNCHANGED <<rvars, rPrio, rTs, mu, q, enqCount, hpc, doneCh, errCh, outcome,
                   MaxBatchSize, draining, notify, stopCh, timer, payloads,
                   execRet, idx, inflight, currentWait, TotalBatches,
                   TotalRequests, LastBatchSize, sent, execCount, ran>>

HandlerNext(r) ==
    \/ Infer_Enqueue(r)
    \/ Infer_Signal(r)
    \/ Infer_Done(r)
    \/ Infer_Err(r)
    \/ Infer_Cancelled(r)

BatcherNext ==
    \/ loop_stop
    \/ loop_notify
    \/ TimerFire
    \/ collect_depth
    \/ collect_flush
    \/ collect_stop
    \/ collect_timer
    \/ collect_notify
    \/ executeBatch_call
    \/ ExecuteBatch_return
    \/ deliver_send
    \/ deliver_err_return
    \/ deliver_ok_return
    \/ drainRemaining

Next ==
    \/ Start
    \/ Stop
    \/ \E r \in Infers : HandlerNext(r)
    \/ BatcherNext

Spec == Init /\ [][Next]_vars

\* ---------------------------------------------------------------- LiveSpec
\* The Go scheduler runs every runnable goroutine: the batcher goroutine, the
\* executor and the timer make progress, a handler that has enqueued gets to
\* its Signal, and a handler with a value in one of its channels receives it.
\* New requests, client cancellations and Stop are under no obligation.
Fairness ==
    /\ WF_vars(BatcherNext)
    /\ \A r \in Infers : WF_vars(Infer_Signal(r))
    /\ \A r \in Infers : WF_vars(Infer_Done(r) \/ Infer_Err(r))

LiveSpec == Spec /\ Fairness

\* ------------------------------------------------------------- RouterSpec
\* The router process: router.New, StartPoller, the poller goroutine and its
\* per-worker GetMetrics calls, concurrent Router.Infer handlers, Stop.  The
\* workers and the network are the environment: a forward or a poll succeeds
\* or fails as they decide.

RInit ==
    /\ QueueInit
    /\ WorkerInit
    /\ RouterNew
    /\ MaxBatchSize = 1
    /\ q = [p \in QProcs |-> QIdle]

\* router.New: registry.Connect(), NewPoller
New ==
    /\ rpc = "new"
    /\ \E failed \in SUBSET Workers : Connect(failed)
    /\ rpc' = "connected"
    /\ UNCHANGED <<qvars, wvars, tvars, applied, ppc, polling, pollRounds, lastPoll, call,
                   routingDistribution, totalRequests, ops, lastPick>>

\* Router.StartPoller (Poller.Start: go p.loop()), then grpcServer.Serve
StartPoller ==
    /\ rpc = "connected"
    /\ rpc' = "serving"
    /\ ppc' = "idle"
    /\ UNCHANGED <<qvars, wvars, tvars, applied, Healthy, FailCount, Metrics, InferClient,
                   polling, pollRounds, lastPoll, call, routingDistribution,
                   totalRequests, ops, lastPick>>

\* Poller.loop: the immediate first poll or a tick; pollAll starts one
\* GetMetrics goroutine per entry whose MetricsClient is not nil
\* for _, w := range workers { if w.MetricsClient == nil { continue }; go ... }
Fetches(round) == {<<round, w>> : w \in {x \in Workers : InferClient[x]}}

pollAll ==
    /\ ppc = "idle"
    /\ pollRounds < MaxPolls
    /\ ppc' = "polling"
    /\ pollRounds' = pollRounds + 1
    /\ polling' = polling \cup Fetches(pollRounds + 1)
    /\ UNCHANGED <<qvars, wvars, tvars, applied, Healthy, FailCount, Metrics, InferClient, rpc,
                   lastPoll, call, routingDistribution, totalRequests, ops,
                   lastPick>>

\* pollAll goroutine: GetMetrics returned metrics; registry.UpdateMetrics
PollOk(w) ==
    /\ \E p \in polling :
          /\ p[2] = w
          /\ polling' = polling \ {p}
          /\ applied' = [applied EXCEPT ![w] = p[1]]
    /\ \E m \in WorkerTelemetry : UpdateMetrics(w, m)
    /\ lastPoll' = [lastPoll EXCEPT ![w] =
                       IF Healthy[w] THEN @
                       ELSE PollOutcome(Healthy'[w], FailCount'[w],
                                        Healthy'[w] /\ InferClient'[w])]
    /\ UNCHANGED <<qvars, wvars, tvars, rpc, ppc, pollRounds, call,
                   routingDistribution, totalRequests, ops, lastPick>>

\* pollAll goroutine: GetMetrics returned an error; registry.MarkFailed
PollFailSilent(w) ==
    /\ \E p \in polling :
          /\ p[2] = w
          /\ polling' = polling \ {p}
          /\ applied' = [applied EXCEPT ![w] = p[1]]
    /\ UNCHANGED <<Metrics, FailCount, Healthy, InferClient>>
    /\ UNCHANGED <<qvars, wvars, tvars, rpc, ppc, pollRounds, lastPoll, call,
                   routingDistribution, totalRequests, ops, lastPick>>

PollFail(w) ==
    /\ \E p \in polling :
          /\ p[2] = w
          /\ polling' = polling \ {p}
          /\ applied' = [applied EXCEPT ![w] = p[1]]
    /\ MarkFailed(w)
    /\ UNCHANGED <<qvars, wvars, tvars, rpc, ppc, pollRounds, lastPoll, call,
                   routingDistribution, totalRequests, ops, lastPick>>

\* pollAll: wg.Wait() returns, back to the select of Poller.loop
pollAll_returnNoWait ==
    /\ ppc = "polling"
    /\ ppc' = "idle"
    /\ UNCHANGED <<qvars, wvars, tvars, applied, Healthy, FailCount, Metrics,
                   InferClient, rpc, polling, pollRounds, lastPoll, call,
                   routingDistribution, totalRequests, ops, lastPick>>

pollAll_return ==
    /\ ppc = "polling"
    /\ polling = {}
    /\ ppc' = "idle"
    /\ UNCHANGED <<qvars, wvars, tvars, applied, Healthy, FailCount, Metrics, InferClient, rpc,
                   polling, pollRounds, lastPoll, call, routingDistribution,
                   totalRequests, ops, lastPick>>

\* Router.Infer returns ret: its locals are gone
Returned(base, ret) ==
    [base EXCEPT !.pc = "done", !.ret = ret, !.attempt = 0, !.healthy = {},
                 !.worker = 0, !.prev = 0, !.lastErr = "nil", !.ctxDone = FALSE]

\* Router.Infer, top of the loop: worker := r.pickBestWorker(), up to its
\* registry.GetHealthy(); with no healthy worker the call returns Unavailable
PickedFallsBackToAll(c, base) ==
    [base EXCEPT !.pc = "score",
                 !.healthy = IF GetHealthy = {}
                             THEN {w \in Workers : InferClient[w]}
                             ELSE GetHealthy]

Picked(c, base) ==
    IF GetHealthy = {}
    THEN Returned(base, [kind |-> "noHealthy", from |-> 0, err |-> "nil"])
    ELSE [base EXCEPT !.pc = "score", !.healthy = GetHealthy,
                      !.snapOk = @ /\ \A w \in GetHealthy :
                                         FailCount[w] < FailThreshold]

\* Router.Infer is called: r.totalRequests.Add(1), first pickBestWorker
Infer_arrive(c) ==
    /\ rpc = "serving"
    /\ call[c].pc = "idle"
    /\ \A d \in Calls : d < c => call[d].pc # "idle"
    /\ totalRequests' = totalRequests + 1
    /\ call' = [call EXCEPT ![c] =
                   Picked(c, [@ EXCEPT !.noneHealthy = \A w \in Workers : ~Healthy[w]])]
    /\ UNCHANGED <<qvars, wvars, tvars, applied, Healthy, FailCount, Metrics, InferClient, rpc,
                   ppc, polling, pollRounds, lastPoll, routingDistribution,
                   ops, lastPick>>

\* for attempt := 0; attempt < maxRetries; attempt++
AttemptsLeftOneMore(attempt) == attempt <= maxRetries

AttemptsLeft(attempt) == attempt < maxRetries

\* Router.Infer, a later iteration: pickBestWorker again, or out of the loop
Infer_retryAllFailed(c) ==
    /\ call[c].pc = "retry"
    /\ call' = [call EXCEPT ![c] =
                   IF AttemptsLeft(@.attempt) /\ GetHealthy # {}
                   THEN Picked(c, @)
                   ELSE Returned(@, [kind |-> "allFailed", from |-> 0,
                                     err |-> call[c].lastErr])]
    /\ UNCHANGED <<qvars, wvars, tvars, applied, Healthy, FailCount, Metrics, InferClient, rpc,
                   ppc, polling, pollRounds, lastPoll, routingDistribution,
                   totalRequests, ops, lastPick>>

Infer_retry(c) ==
    /\ call[c].pc = "retry"
    /\ call' = [call EXCEPT ![c] =
                   IF AttemptsLeft(@.attempt)
                   THEN Picked(c, @)
                   ELSE Returned(@, [kind |-> "allFailed", from |-> 0,
                                     err |-> call[c].lastErr])]
    /\ UNCHANGED <<qvars, wvars, tvars, applied, Healthy, FailCount, Metrics, InferClient, rpc,
                   ppc, polling, pollRounds, lastPoll, routingDistribution,
                   totalRequests, ops, lastPick>>

\* pickBestWorker scores the snapshot (reading entry.Metrics as it is now),
\* picks, and Router.Infer sends worker.InferClient.Infer(ctx, req)
Infer_forward(c) ==
    /\ call[c].pc = "score"
    /\ \E w \in Pickable(call[c].healthy) :
          call' = [call EXCEPT ![c].pc = "forward", ![c].worker = w,
                               ![c].prev = call[c].worker,
                               ![c].forwards = @ + 1]
    /\ UNCHANGED <<qvars, wvars, tvars, applied, Healthy, FailCount, Metrics, InferClient, rpc,
                   ppc, polling, pollRounds, lastPoll, routingDistribution,
                   totalRequests, ops, lastPick>>

\* The client cancels the call, or its deadline expires: ctx is done.  Only
\* the forward reads ctx, so a cancellation at another moment acts as one at
\* the start of the next forward.
ClientCancel(c) ==
    /\ call[c].pc = "forward"
    /\ ~call[c].ctxDone
    /\ call' = [call EXCEPT ![c].ctxDone = TRUE]
    /\ UNCHANGED <<qvars, wvars, tvars, applied, Healthy, FailCount, Metrics, InferClient, rpc,
                   ppc, polling, pollRounds, lastPoll, routingDistribution,
                   totalRequests, ops, lastPick>>

\* What a forward made with ctx can fail with: the ctx error once ctx is
\* done; else a transport failure, or the error Worker.Infer returns from
\* ErrCh after a failed batch
ForwardErrors(ctxDone) ==
    IF ctxDone THEN {"cancelled"} ELSE {"transport", "executor"}

Forwarded(c, out) ==
    [w |-> call[c].worker, out |-> out,
     marked |-> FailCount' = [FailCount EXCEPT ![call[c].worker] = @ + 1],
     reset |-> FailCount'[call[c].worker] = 0]

\* err == nil: counter.Add(1); return resp, nil
Forward_okUncounted(c) ==
    /\ call[c].pc = "forward"
    /\ ~call[c].ctxDone
    /\ UNCHANGED <<routingDistribution, Healthy, FailCount, Metrics, InferClient>>
    /\ call' = [call EXCEPT ![c] =
                   Returned([@ EXCEPT !.last = Forwarded(c, "ok")],
                            [kind |-> "ok", from |-> call[c].worker,
                             err |-> "nil"])]
    /\ UNCHANGED <<qvars, wvars, tvars, applied, rpc, ppc, polling, pollRounds, lastPoll,
                   totalRequests, ops, lastPick>>

Forward_ok(c) ==
    /\ call[c].pc = "forward"
    /\ ~call[c].ctxDone
    /\ routingDistribution' =
          [routingDistribution EXCEPT ![call[c].worker] = @ + 1]
    /\ UNCHANGED <<Healthy, FailCount, Metrics, InferClient>>
    /\ call' = [call EXCEPT ![c] =
                   Returned([@ EXCEPT !.last = Forwarded(c, "ok")],
                            [kind |-> "ok", from |-> call[c].worker,
                             err |-> "nil"])]
    /\ UNCHANGED <<qvars, wvars, tvars, applied, rpc, ppc, polling, pollRounds, lastPoll,
                   totalRequests, ops, lastPick>>

\* err != nil: r.registry.MarkFailed(worker.Address); lastErr = err; attempt++
Forward_err(c) ==
    /\ call[c].pc = "forward"
    /\ MarkFailed(call[c].worker)
    /\ \E e \in ForwardErrors(call[c].ctxDone) :
          call' = [call EXCEPT ![c].pc = "retry",
                               ![c].attempt = @ + 1,
                               ![c].lastErr = e,
                               ![c].last = Forwarded(c, e),
                               ![c].marks = @ + FailCount'[call[c].worker]
                                              - FailCount[call[c].worker]]
    /\ UNCHANGED <<qvars, wvars, tvars, applied, rpc, ppc, polling, pollRounds, lastPoll,
                   routingDistribution, totalRequests, ops, lastPick>>

\* Router.Stop after grpcServer.GracefulStop: no handler is running;
\* poller.Stop() closes stopCh and waits for the loop
RouterStop ==
    /\ rpc = "serving"
    /\ ppc = "idle"
    /\ pollRounds >= 1
    /\ \A c \in Calls : call[c].pc \in {"idle", "done"}
    /\ rpc' = "stopped"
    /\ ppc' = "stopped"
    /\ UNCHANGED <<qvars, wvars, tvars, applied, Healthy, FailCount, Metrics, InferClient,
                   polling, pollRounds, lastPoll, call, routingDistribution,
                   totalRequests, ops, lastPick>>

PollerNext ==
    \/ pollAll
    \/ \E w \in Workers : PollOk(w)
    \/ \E w \in Workers : PollFail(w)
    \/ pollAll_return

InferNext(c) ==
    \/ Infer_arrive(c)
    \/ Infer_retry(c)
    \/ Infer_forward(c)
    \/ ClientCancel(c)
    \/ Forward_ok(c)
    \/ Forward_err(c)

RNext ==
    \/ New
    \/ StartPoller
    \/ PollerNext
    \/ \E c \in Calls : InferNext(c)
    \/ RouterStop

RouterSpec == RInit /\ [][RNext]_vars

\* ------------------------------------------------------------- StatsSpec
\* The router serving Infer calls one after the other, without the poller.
\* Router.Infer has returned to the transport; the next client request
\* starts a new call
Infer_next(c) ==
    /\ call[c].pc = "done"
    /\ call[c].doneCalls + 1 < MaxServed
    /\ call' = [call EXCEPT ![c] =
                   [NoCall EXCEPT !.doneCalls = call[c].doneCalls + 1,
                                  !.okCalls = call[c].okCalls +
                                      IF call[c].ret.kind = "ok" THEN 1 ELSE 0]]
    /\ UNCHANGED <<qvars, wvars, tvars, applied, Healthy, FailCount, Metrics, InferClient, rpc,
                   ppc, polling, pollRounds, lastPoll, routingDistribution,
                   totalRequests, ops, lastPick>>

StatsNext ==
    \/ New
    \/ StartPoller
    \/ \E c \in Calls : InferNext(c)
    \/ \E c \in Calls : Infer_next(c)

StatsSpec == RInit /\ [][StatsNext]_vars

\* ----------------------------------------------------------- RegistrySpec
\* The Registry as a type: its exported methods called in any order, and
\* pickBestWorker selecting on the state they leave.

\* The addresses the methods are called with: the registry's own and one
\* that is not a key of r.workers
Addrs == Workers \cup {NumWorkers + 1}

RegConnect ==
    /\ ops < MaxOps
    /\ ops' = ops + 1
    /\ \E failed \in SUBSET Workers : Connect(failed)
    /\ UNCHANGED <<qvars, wvars, tvars, applied, rpc, ppc, polling, pollRounds, lastPoll, call,
                   routingDistribution, totalRequests, lastPick>>

RegUpdateMetrics(w) ==
    /\ ops < MaxOps
    /\ ops' = ops + 1
    /\ \E m \in AnyTelemetry : UpdateMetrics(w, m)
    /\ UNCHANGED <<qvars, wvars, tvars, applied, rpc, ppc, polling, pollRounds, lastPoll, call,
                   routingDistribution, totalRequests, lastPick>>

RegMarkFailed(w) ==
    /\ ops < MaxOps
    /\ ops' = ops + 1
    /\ MarkFailed(w)
    /\ UNCHANGED <<qvars, wvars, tvars, applied, rpc, ppc, polling, pollRounds, lastPoll, call,
                   routingDistribution, totalRequests, lastPick>>

RegMarkHealthy(w) ==
    /\ ops < MaxOps
    /\ ops' = ops + 1
    /\ MarkHealthy(w)
    /\ UNCHANGED <<qvars, wvars, tvars, applied, rpc, ppc, polling, pollRounds, lastPoll, call,
                   routingDistribution, totalRequests, lastPick>>

\* pickBestWorker returns a worker (not nil)
RegPick ==
    /\ \E w \in Pickable(GetHealthy) :
          lastPick' = [worker |-> w, score |-> Score(Metrics[w])]
    /\ UNCHANGED <<qvars, wvars, tvars, applied, Healthy, FailCount, Metrics, InferClient, rpc,
                   ppc, polling, pollRounds, lastPoll, call,
                   routingDistribution, totalRequests, ops>>

RegNext ==
    \/ RegConnect
    \/ \E w \in Addrs : RegUpdateMetrics(w)
    \/ \E w \in Addrs : RegMarkFailed(w)
    \/ \E w \in Addrs : RegMarkHealthy(w)
    \/ RegPick

RegistrySpec == RInit /\ [][RegNext]_vars

\* -------------------------------------------------------------- RaceSpec
\* The poller's UpdateMetrics, which writes an entry under r.mu, against
\* broadcastState, which reads the entries GetAll returned after GetAll has
\* released r.mu.

\* r.mu.Lock() of UpdateMetrics(w, m), called by the poller for a worker it
\* could query
UpdateMetrics_lock(w, m) ==
    /\ rpc = "serving"
    /\ upd.st = "idle"
    /\ InferClient[w]
    /\ ops < MaxOps
    /\ ops' = ops + 1
    /\ upd' = [st |-> "locked", w |-> w, m |-> m]
    /\ UNCHANGED <<qvars, wvars, applied, view, Healthy, FailCount, Metrics,
                   InferClient, rpc, ppc, polling, pollRounds, lastPoll, call,
                   routingDistribution, totalRequests, lastPick>>

\* the three assignments of UpdateMetrics and the deferred r.mu.Unlock()
UpdateMetrics_unlock ==
    /\ upd.st = "locked"
    /\ UpdateMetrics(upd.w, upd.m)
    /\ upd' = NoUpdate
    /\ UNCHANGED <<qvars, wvars, applied, view, rpc, ppc, polling, pollRounds,
                   lastPoll, call, routingDistribution, totalRequests, ops,
                   lastPick>>

\* MarkFailed takes r.mu: it waits for an UpdateMetrics that holds it
MarkFailed_locked(w) ==
    /\ rpc = "serving"
    /\ upd.st = "idle"
    /\ RegMarkFailed(w)

\* the entry of w as the registry holds it, and as the UpdateMetrics call in
\* progress leaves it
EntryNow(w) == [Healthy |-> Healthy[w], Metrics |-> Metrics[w]]

EntryAfter(w) ==
    IF upd.st = "locked" /\ upd.w = w
    THEN [Healthy |-> upd.m.Healthy, Metrics |-> upd.m]
    ELSE EntryNow(w)

\* ws := WorkerState{Healthy: w.Healthy}; ... Score(w.Metrics) ...: two reads
\* without r.mu.  While UpdateMetrics is writing the same entry each read
\* returns the value from before the call or the one the call assigns.
broadcastState(w) ==
    /\ rpc = "serving"
    /\ \E h \in {EntryNow(w).Healthy, EntryAfter(w).Healthy},
          t \in {EntryNow(w).Metrics, EntryAfter(w).Metrics} :
          view' = [w |-> w, seen |-> [Healthy |-> h, Metrics |-> t],
                   before |-> EntryNow(w), after |-> EntryAfter(w)]
    /\ UNCHANGED <<qvars, wvars, applied, upd, Healthy, FailCount, Metrics,
                   InferClient, rpc, ppc, polling, pollRounds, lastPoll, call,
                   routingDistribution, totalRequests, ops, lastPick>>

RaceNext ==
    \/ New
    \/ StartPoller
    \/ \E w \in Workers, m \in AnyTelemetry : UpdateMetrics_lock(w, m)
    \/ UpdateMetrics_unlock
    \/ \E w \in Workers : MarkFailed_locked(w)
    \/ \E w \in Workers : broadcastState(w)

RaceSpec == RInit /\ [][RaceNext]_vars

\* ------------------------------------------------------------- SelectSpec
\* pickBestWorker on any registry of MaxEndpoints connected entries: every
\* entry carries telemetry of its own and is healthy or not (an entry whose
\* last poll said Healthy is unhealthy only through MarkFailed).
Endpoints == 1..MaxEndpoints

SelInit ==
    /\ QueueInit
    /\ WorkerInit
    /\ MaxBatchSize = 1
    /\ q = [p \in QProcs |-> QIdle]
    /\ Metrics \in [Endpoints -> AnyTelemetry \cup {InitialMetrics}]
    /\ Healthy \in [Endpoints -> BOOLEAN]
    /\ \A w \in Endpoints : Healthy[w] => Metrics[w].Healthy
    /\ FailCount = [w \in Endpoints |->
                       IF ~Healthy[w] /\ Metrics[w].Healthy THEN FailThreshold ELSE 0]
    /\ InferClient = [w \in Endpoints |-> TRUE]
    /\ rpc = "connected"
    /\ ppc = "unstarted"
    /\ polling = {}
    /\ pollRounds = 0
    /\ applied = [w \in Workers |-> 0]
    /\ upd = NoUpdate
    /\ view = NoView
    /\ lastPoll = [w \in Workers |-> "none"]
    /\ call = [c \in Calls |-> NoCall]
    /\ routingDistribution = [w \in Workers |-> 0]
    /\ totalRequests = 0
    /\ ops = 0
    /\ lastPick = NoPick

SelectSpec == SelInit /\ [][RegPick]_vars

\* -------------------------------------------------------- claims on Spec
\* C1: liveness of request resolution.  Under LiveSpec, every request that
\* is enqueued while the batcher runs and is not stopped eventually has an
\* outcome written to one of its slots (or the batcher is stopped meanwhile).
C1_EveryRequestResolved ==
    \A r \in Infers :
        (enqCount[r] > 0 /\ ~stopCh) ~> (sent[r] # <<>> \/ stopCh)


\* the request at position i of the k-th returned ExecuteBatch call has been
\* through its iteration of the distribution loop
Distributed(k, i) == k < Len(ran) \/ bpc # "deliver" \/ i <= idx

\* C2: exactly one outcome.  No request ever has more than one value written
\* across its two slots, every request of a distributed batch has exactly
\* one, and a handler that has returned has returned exactly one of result,
\* error or cancellation - a result or error being the value that was written.
C2_ExactlyOneOutcome ==
    /\ \A r \in Infers :
        /\ Len(sent[r]) <= 1
        /\ (hpc[r] = "ret") <=> (outcome[r].kind # "none")
        /\ outcome[r].kind \in {"none", "result", "error", "cancelled"}
        /\ outcome[r].kind = "result" =>
              sent[r] = <<[slot |-> "done",
                           val |-> [outcome[r].val EXCEPT !.WorkerId = ""]]>>
        /\ outcome[r].kind = "error" =>
              sent[r] = <<[slot |-> "err", val |-> outcome[r].val]>>
    /\ \A k \in 1..Len(ran) : \A i \in 1..Len(ran[k].reqs) :
        Distributed(k, i) => Len(sent[ran[k].reqs[i]]) = 1

\* one handler returned a result while another returned on cancellation and
\* still had its outcome written
C2_Witness ==
    \E r, r2 \in Infers :
        /\ outcome[r].kind = "result"
        /\ outcome[r2].kind = "cancelled" /\ Len(sent[r2]) = 1

\* C7: batch size.  Every array handed to ExecuteBatch has between 1 and
\* MaxBatchSize payloads, and every response written carries a batch_size of
\* at least 1 (exactly 1 when MaxBatchSize is 1).
C7_BatchSizeBounds ==
    /\ inflight > 0 => (1 <= Len(payloads) /\ Len(payloads) <= MaxBatchSize)
    /\ \A k \in 1..Len(ran) :
        1 <= Len(ran[k].payloads) /\ Len(ran[k].payloads) <= MaxBatchSize
    /\ \A r \in Infers : \A j \in 1..Len(sent[r]) :
        sent[r][j].slot = "done" =>
            /\ sent[r][j].val.BatchSize >= 1
            /\ MaxBatchSize = 1 => sent[r][j].val.BatchSize = 1

\* a full batch is executing while a further request waits in the queue
C7_Witness ==
    /\ inflight = 1
    /\ Len(payloads) = MaxBatchSize
    /\ items # <<>>

\* C8: serial execution.  At most one ExecuteBatch call is in progress.
C8_SerialExecution == inflight <= 1

\* a batch is executing in drain mode, after an earlier batch has returned
C8_Witness ==
    /\ inflight = 1
    /\ draining
    /\ ran # <<>>

\* C9: error fan-out.  For every ExecuteBatch call that returned an error,
\* each request of its batch has that error and nothing else written to its
\* slots once the distribution loop has passed it (nothing before); and no
\* request is enqueued or executed twice, nor queued again after execution.
C9_ErrorFanOut ==
    /\ \A k \in 1..Len(ran) :
        ran[k].ret.err # NoError =>
            \A i \in 1..Len(ran[k].reqs) :
                sent[ran[k].reqs[i]] =
                    IF Distributed(k, i)
                    THEN <<[slot |-> "err", val |-> ran[k].ret.err]>>
                    ELSE <<>>
    /\ \A r \in Infers :
        /\ enqCount[r] <= 1
        /\ execCount[r] <= 1
        /\ execCount[r] = 1 => Occ(r, items) = 0

\* a batch of two requests failed and both have been served the error
C9_Witness ==
    \E k \in 1..Len(ran) :
        /\ ran[k].ret.err # NoError
        /\ Len(ran[k].reqs) = 2
        /\ Distributed(k, 2)

\* C10: positional delivery.  For every ExecuteBatch call that succeeded,
\* payloads[i] is the payload of the i-th request of the batch, there are as
\* many results as payloads, and the response written for the i-th request
\* carries results[i] (computed from that request's payload), the request's
\* own id and priority label, and the length of the batch.
C10_PositionalDelivery ==
    \A k \in 1..Len(ran) :
        ran[k].ret.err = NoError =>
            /\ Len(ran[k].payloads) = Len(ran[k].reqs)
            /\ Len(ran[k].ret.results) = Len(ran[k].payloads)
            /\ \A i \in 1..Len(ran[k].reqs) :
                LET r == ran[k].reqs[i] IN
                /\ ran[k].payloads[i] = PayloadOf(r)
                /\ Distributed(k, i) =>
                    /\ Len(sent[r]) = 1
                    /\ sent[r][1].slot = "done"
                    /\ sent[r][1].val.Result = ran[k].ret.results[i]
                    /\ sent[r][1].val.Result.of = PayloadOf(r)
                    /\ sent[r][1].val.RequestId = RequestId(r)
                    /\ sent[r][1].val.PriorityUsed = PriorityString(rPrio[r])
                    /\ sent[r][1].val.BatchSize = Len(ran[k].reqs)

\* a batch of two requests of different priorities succeeded and both
\* handlers have returned their results
C10_Witness ==
    \E k \in 1..Len(ran) :
        /\ ran[k].ret.err = NoError
        /\ Len(ran[k].reqs) = 2
        /\ rPrio[ran[k].reqs[1]] # rPrio[ran[k].reqs[2]]
        /\ \A i \in 1..2 : outcome[ran[k].reqs[i]].kind = "result"

\* ------------------------------------------------------- claims on QSpec
InDequeueN(p) == q[p].op = "DequeueN" /\ q[p].pc \in {"pop", "unlock"}

HoldsLock(p) == q[p].pc \in {"body", "pop", "unlock"}

\* C3: queue conservation.  In every state, each request has been pushed as
\* often as it was returned by DequeueN plus the number of times it sits in
\* the queue; no request is returned twice; and a Depth() call returns the
\* number of requests pushed and not yet returned.
C3_QueueConservation ==
    /\ \A r \in Reqs : enqCount[r] = deqCount[r] + Occ(r, items)
    /\ \A r \in Reqs : deqCount[r] <= 1
    /\ \A p \in QProcs :
        (q[p].op = "Depth" /\ q[p].pc = "unlock") =>
            q[p].res = <<Cardinality({r \in Reqs : enqCount[r] > deqCount[r]})>>

\* a Depth() call saw one queued request after another one had been dequeued
C3_Witness ==
    \E p \in QProcs :
        /\ q[p].op = "Depth" /\ q[p].pc = "unlock" /\ q[p].res = <<1>>
        /\ \E r \in Reqs : deqCount[r] = 1

\* C4: priority order at dequeue.  From the first pop of a DequeueN call to
\* its return, no request left in the queue has a strictly higher priority
\* than a request the call has taken.
C4_PriorityOrder ==
    \A p \in QProcs :
        InDequeueN(p) =>
            \A i \in 1..Len(q[p].res), j \in 1..Len(items) :
                rPrio[items[j]] <= rPrio[q[p].res[i]]

\* a finished DequeueN took a request that was enqueued after a request of
\* lower priority which it left behind
C4_Witness ==
    \E p \in QProcs :
        /\ q[p].op = "DequeueN" /\ q[p].pc = "unlock"
        /\ \E i \in 1..Len(q[p].res), j \in 1..Len(items) :
            /\ rPrio[items[j]] < rPrio[q[p].res[i]]
            /\ items[j] < q[p].res[i]

\* C5: timestamp order within a priority.  During and at the end of a
\* DequeueN call, a request left in the queue never has an earlier timestamp
\* than a taken request of the same priority, and taken requests of the same
\* priority appear in the result in timestamp order.
C5_TimestampOrder ==
    \A p \in QProcs :
        InDequeueN(p) =>
            /\ \A i \in 1..Len(q[p].res), j \in 1..Len(items) :
                rPrio[items[j]] = rPrio[q[p].res[i]] =>
                    rTs[q[p].res[i]] <= rTs[items[j]]
            /\ \A i, j \in 1..Len(q[p].res) :
                (i < j /\ rPrio[q[p].res[i]] = rPrio[q[p].res[j]]) =>
                    rTs[q[p].res[i]] <= rTs[q[p].res[j]]

\* a finished DequeueN returned, ahead of an older request of the same
\* priority, a request that was enqueued later but carries an earlier timestamp
C5_Witness ==
    \E p \in QProcs :
        /\ q[p].op = "DequeueN" /\ q[p].pc = "unlock"
        /\ \E i, j \in 1..Len(q[p].res) :
            /\ i < j
            /\ rPrio[q[p].res[i]] = rPrio[q[p].res[j]]
            /\ rTs[q[p].res[i]] < rTs[q[p].res[j]]
            /\ q[p].res[i] > q[p].res[j]

\* C6: DequeueN(n) returns exactly min(n, depth) requests and leaves
\* depth - min(n, depth) in the queue, where depth is the queue's length when
\* the call took the mutex; and no two goroutines are inside a queue method
\* at the same time, so no Enqueue or Depth sees a half-done DequeueN.
C6_DequeueNCount ==
    /\ \A p \in QProcs :
        (q[p].op = "DequeueN" /\ q[p].pc = "unlock") =>
            /\ Len(q[p].res) = Min(q[p].arg, q[p].d0)
            /\ Len(items) = q[p].d0 - Min(q[p].arg, q[p].d0)
    /\ \A p, p2 \in QProcs : (p # p2 /\ HoldsLock(p)) => ~HoldsLock(p2)

\* a DequeueN(n) with more than n requests queued returned exactly n
C6_Witness ==
    \E p \in QProcs :
        /\ q[p].op = "DequeueN" /\ q[p].pc = "unlock"
        /\ q[p].d0 = 3 /\ q[p].arg = 2 /\ Len(q[p].res) = 2 /\ Len(items) = 1

\* -------------------------------------------------- claims on RouterSpec
\* C11: failover goes to a different worker.  Within one Router.Infer call,
\* the forward that follows a failed forward to worker W goes to a worker
\* other than W whenever the selection had another healthy worker.
C11_FailoverToDifferentWorker ==
    \A c \in Calls :
        (/\ call[c].pc = "forward"
         /\ call[c].forwards > 1
         /\ Cardinality(call[c].healthy) > 1)
        => call[c].worker # call[c].prev

\* C12: a client-side cancellation or deadline expiry is never counted as a
\* worker failure: a forward that ended with the client's ctx error caused
\* no MarkFailed.
C12_CancelNeverMarksFailed ==
    \A c \in Calls : call[c].last.out = "cancelled" => ~call[c].last.marked

\* C13: an executor failure is surfaced to the client and not retried: after
\* a forward that returned the worker's executor error the call has
\* returned that error, and the worker was not marked failed.
C13_ExecutorFailureSurfaced ==
    \A c \in Calls :
        call[c].last.out = "executor"
        => /\ ~call[c].last.marked
           /\ call[c].pc = "done"
           /\ call[c].ret.err = "executor"

\* C14: bounded retry protocol.  A call makes at most 3 forwards; a
\* successful forward is its last and its response is returned; every failed
\* forward is followed by exactly one MarkFailed, on the chosen worker; after
\* 3 failed forwards the call returns "all workers failed" with the error of
\* the last one.
C14_BoundedRetry ==
    \A c \in Calls :
        LET r == call[c]
            failed == r.forwards - (IF r.pc = "forward" THEN 1 ELSE 0)
                                 - (IF r.last.out = "ok" THEN 1 ELSE 0)
        IN  /\ r.forwards <= maxRetries
            /\ r.marks = failed
            /\ r.last.out \notin {"none", "ok"} => r.last.marked
            /\ r.last.out = "ok"
                   => r.pc = "done" /\ r.ret.kind = "ok" /\ r.ret.from = r.last.w
            /\ r.ret.kind = "ok" => r.last.out = "ok"
            /\ (r.pc = "done" /\ failed = maxRetries)
                   => r.ret.kind = "allFailed" /\ r.ret.err = r.last.out
            /\ r.ret.kind = "allFailed" => failed = maxRetries

\* a call whose three forwards all failed has returned
C14_Witness ==
    \E c \in Calls :
        /\ call[c].pc = "done"
        /\ call[c].forwards = maxRetries
        /\ call[c].marks = maxRetries
        /\ call[c].ret.kind = "allFailed"

\* C15: when every worker is unhealthy as the request arrives, Router.Infer
\* returns Unavailable "no healthy workers" with no forward and no
\* MarkFailed.
C15_NoHealthyNoForward ==
    \A c \in Calls :
        call[c].noneHealthy
        => /\ call[c].pc = "done"
           /\ call[c].ret.kind = "noHealthy"
           /\ call[c].forwards = 0
           /\ call[c].marks = 0

\* a call that arrived with every worker unhealthy, one of them connected
C15_Witness ==
    \E c \in Calls :
        /\ call[c].noneHealthy
        /\ call[c].pc = "done"
        /\ \E w \in Workers : InferClient[w]

C19_SuccessResetsFailCount ==
    \A c \in Calls : call[c].last.out = "ok" => call[c].last.reset

\* ------------------------------------------------ claims on RegistrySpec
\* C17: registry health invariant, as claimed: healthy iff fail-count < 3.
C17_HealthyIffBelowThreshold ==
    \A w \in Workers : Healthy[w] <=> FailCount[w] < FailThreshold

\* C17, amended: a healthy worker has a fail-count below 3 (a worker whose
\* fail-count has reached 3 is unhealthy).
C17_HealthyOnlyBelowThreshold ==
    \A w \in Workers : Healthy[w] => FailCount[w] < FailThreshold

\* a worker has been marked failed three times in a row
C17_Witness ==
    \E w \in Workers : FailCount[w] >= FailThreshold /\ ~Healthy[w]

\* C20: a worker whose cached telemetry is nil or reports healthy = false
\* has the sentinel score and is never returned by the Selector.
C20_SentinelNeverSelected ==
    /\ \A w \in Workers :
           (Metrics[w].nil \/ ~Metrics[w].Healthy) => Score(Metrics[w]) = -1000 * 10
    /\ lastPick.worker # 0 => lastPick.score # -1000 * 10

\* ---------------------------------------------------- claims on SelectSpec
\* C21: top-K selection.  The worker pickBestWorker returns is healthy and
\* fewer than K = min(3, number of healthy workers) healthy workers have a
\* strictly higher score than it has.
HigherScored(x) == {w \in GetHealthy : Score(Metrics[w]) > x}

C21_TopKSelection ==
    lastPick.worker # 0 =>
        /\ lastPick.worker \in GetHealthy
        /\ lastPick.score = Score(Metrics[lastPick.worker])
        /\ Cardinality(HigherScored(lastPick.score))
              < Min(topN, Cardinality(GetHealthy))

\* more healthy workers than K, of which one scores below the pick and
\* one above it: the pick is a candidate that is neither best nor cut
C21_Witness ==
    /\ lastPick.worker # 0
    /\ Cardinality(GetHealthy) > topN
    /\ HigherScored(lastPick.score) # {}
    /\ \E w \in GetHealthy : Score(Metrics[w]) < lastPick.score

\* C22: anti-herd.  Whatever the registry holds, every candidate of the top
\* K has a weight of at least 1 point and pickBestWorker can return it: for
\* each of them there is a draw of the random number that selects it.
C22_EveryTopCandidatePossible ==
    \A T \in TopSets(GetHealthy) : \A w \in T :
        /\ Weight(w, T) >= 1 * 10
        /\ w \in Pickable(GetHealthy)

\* the pick is a candidate of minimal weight although a candidate with a
\* strictly better score stood beside it
C22_Witness ==
    /\ lastPick.worker # 0
    /\ \E T \in TopSets(GetHealthy) :
          /\ lastPick.worker \in T
          /\ Weight(lastPick.worker, T) = 1 * 10
          /\ \E w \in T : Weight(w, T) > 1 * 10

\* ------------------------------------------- claims on Spec (batch timing)
\* C23: MaxWaitTime bounds the wait of a collect phase.  The timer a
\* collect phase is waiting on was started with at most MaxWaitTime.
C23_WaitWithinMaxWaitTime ==
    timer.st = "armed" => timer.d <= MaxWaitTime

\* C24: adaptive wait after every batch.  When executeBatch returns, after
\* a successful or a failed ExecuteBatch call, currentWait is the value
\* adaptWait gives for the depth of the queue at that moment.
C24_AdaptAfterEveryBatch ==
    [][(bpc = "deliver" /\ bpc' # "deliver")
          => currentWait' = adaptWait(Depth(items'))]_vars

\* sizes of the batches handed to the executor so far, in order
BatchSizes == [k \in 1..Len(ran) |-> Len(ran[k].reqs)]

\* floor(n / size) batches of size, then the residue if there is one
FullThenResidue(n, size) ==
    [k \in 1..((n + size - 1) \div size) |->
        IF k * size <= n THEN size ELSE n - (k - 1) * size]

\* C25: size-triggered flush.  Under LiveSpec, once all MaxInfer requests
\* are queued and none has been dequeued, they are executed as
\* floor(MaxInfer / MaxBatchSize) full batches followed by the residue.
C25_FullBatchesThenResidue ==
    (Depth(items) = MaxInfer /\ ~stopCh)
        ~> (BatchSizes = FullThenResidue(MaxInfer, MaxBatchSize))

\* the batcher is inside collectBatch
CollectPhase == bpc \in {"collect", "select", "flush"}

\* C26: the collect timer is never reset.  Inside a collect phase the one
\* timer started at its beginning keeps its duration and, once expired,
\* stays expired - a Signal received in the phase leaves it alone; the
\* phase is left only by a DequeueN; and under LiveSpec a phase whose
\* timer has expired ends.
C26_TimerNeverReset ==
    /\ [][(CollectPhase /\ CollectPhase') =>
              /\ timer.st \in {"armed", "fired"}
              /\ timer'.d = timer.d
              /\ timer'.st = "fired" \/ timer' = timer]_vars
    /\ [][(CollectPhase /\ ~CollectPhase') =>
              /\ batch' = DequeueN(items, MaxBatchSize)[1]
              /\ items' = DequeueN(items, MaxBatchSize)[2]]_vars
    /\ (CollectPhase /\ timer.st = "fired") ~> ~CollectPhase

\* a Signal was received after the timer expired and with fewer than
\* MaxBatchSize requests queued: the phase goes on with the expired timer
C26_Witness ==
    /\ bpc = "collect"
    /\ timer.st = "fired"
    /\ Depth(items) < MaxBatchSize

\* -------------------------------------------------- claims on Spec (Stop)
\* C27: Stop drains.  At the step in which the batcher loop exits the queue
\* is empty, and every request enqueued up to then - so every request that
\* was queued when Stop was called - has been passed to the executor
\* exactly once and has had its outcome written to its slot.
C27_StopDrains ==
    [][(bpc # "exited" /\ bpc' = "exited") =>
          /\ stopCh
          /\ Depth(items') = 0
          /\ \A r \in Infers : enqCount[r] > 0 =>
                /\ execCount'[r] = 1
                /\ Len(sent'[r]) = 1]_vars

\* the loop has exited and every request was executed although none of the
\* handlers had signalled: the requests were queued and Stop drained them
C27_Witness ==
    /\ bpc = "exited"
    /\ \A r \in Infers : hpc[r] = "enq" /\ execCount[r] = 1 /\ Len(sent[r]) = 1

\* C28: Stop terminates.  Under LiveSpec (every ExecuteBatch call returns,
\* the batcher goroutine keeps running), once stopCh is closed the batcher
\* loop eventually exits.
C28_StopTerminates == stopCh ~> (bpc = "exited")

\* the loop has exited after executing a request, with a wake notification
\* still pending
C28_Witness ==
    /\ bpc = "exited"
    /\ notify > 0
    /\ \E r \in Infers : execCount[r] = 1

\* C29: cancellation does not remove queued work.  Under LiveSpec, a
\* request whose handler has returned on cancellation while the request was
\* queued (and the batcher not stopped) is eventually dequeued and passed to
\* the executor.
C29_CancelledStillExecuted ==
    \A r \in Infers :
        (outcome[r].kind = "cancelled" /\ InSeq(r, items) /\ ~stopCh)
            ~> (execCount[r] = 1)

\* C30: result handoff never blocks.  Whenever executeBatch is about to
\* write the outcome of the next request of the batch, the write can be
\* made at once.
C30_HandoffNeverBlocks ==
    (bpc = "deliver" /\ idx < Len(batch)) => ENABLED deliver_send

\* both requests of a batch have their outcome although the handler of the
\* first had returned on cancellation and its slot is never read
C30_Witness ==
    /\ bpc = "deliver"
    /\ Len(batch) = 2
    /\ idx = 2
    /\ outcome[batch[1]].kind = "cancelled"
    /\ Len(doneCh[batch[1]]) + Len(errCh[batch[1]]) = 1
    /\ Len(sent[batch[2]]) = 1

\* ------------------------------------- claims on RegistrySpec (methods)
\* C32: MarkFailed on a known address adds exactly 1 to the fail-count and
\* sets healthy = false exactly when the new count is >= 3, leaving the flag
\* as it was below 3; so a healthy worker turns unhealthy by MarkFailed on
\* the failure that makes its count exactly 3.
C32_MarkFailedEffect ==
    [][\A a \in Workers : RegMarkFailed(a) =>
          /\ FailCount'[a] = FailCount[a] + 1
          /\ Healthy'[a] = IF FailCount'[a] >= FailThreshold THEN FALSE
                           ELSE Healthy[a]
          /\ (Healthy[a] /\ ~Healthy'[a]) => FailCount'[a] = FailThreshold]_vars

\* three calls from the initial registry, all MarkFailed of one worker: it
\* has just become unhealthy, on its third failure
C32_Witness ==
    /\ ops = FailThreshold
    /\ \E w \in Workers : FailCount[w] = FailThreshold /\ ~Healthy[w]

\* C37: in every registry state a fail-count of 3 or more goes with
\* healthy = false, and no fail-count is negative.
C37_ThresholdImpliesUnhealthy ==
    \A w \in Workers :
        /\ FailCount[w] >= 0
        /\ FailCount[w] >= FailThreshold => ~Healthy[w]

\* failures went on after the worker had become unhealthy
C37_Witness ==
    \E w \in Workers : FailCount[w] > FailThreshold /\ ~Healthy[w]

\* C39: registry frame.  No step changes the set of addresses; UpdateMetrics,
\* MarkFailed and MarkHealthy called with address a leave every entry other
\* than a's unchanged (every entry, when a is not in the registry) and never
\* touch a transport handle; a selection (GetHealthy) changes no entry.
C39_RegistryFrame ==
    [][/\ DOMAIN Metrics' = Workers /\ DOMAIN FailCount' = Workers
       /\ DOMAIN Healthy' = Workers /\ DOMAIN InferClient' = Workers
       /\ \A a \in Addrs :
             (RegUpdateMetrics(a) \/ RegMarkFailed(a) \/ RegMarkHealthy(a)) =>
                /\ InferClient' = InferClient
                /\ \A w \in Workers : w # a =>
                      /\ Metrics'[w] = Metrics[w]
                      /\ FailCount'[w] = FailCount[w]
                      /\ Healthy'[w] = Healthy[w]
       /\ RegPick =>
             UNCHANGED <<Metrics, FailCount, Healthy, InferClient>>]_vars

\* the registry has been changed and then called with an address it does
\* not hold: five calls, but a worker's state is that of three MarkFailed
C39_Witness ==
    /\ ops = MaxOps
    /\ \E w \in Workers : FailCount[w] = FailThreshold /\ ~Healthy[w]
    /\ \A w \in Workers : FailCount[w] = 0 \/ FailCount[w] = FailThreshold

\* ------------------------------------- claims on Spec (wake-ups, batch order)
\* C36: no lost wake-up.  Whenever the batcher loop is blocked in its outer
\* wait, the queue is empty, or a wake notification is pending in notify, or
\* a handler is between its Enqueue and its Signal.
C36_NoLostWakeup ==
    (bpc = "wait" /\ ~stopCh) =>
        \/ Depth(items) = 0
        \/ notify > 0
        \/ \E r \in Infers : hpc[r] = "enq"

\* request a comes strictly before request b in the queue order
Precedes(a, b) ==
    \/ rPrio[a] > rPrio[b]
    \/ rPrio[a] = rPrio[b] /\ rTs[a] < rTs[b]

\* no request of s stands behind one that it precedes
QueueOrdered(s) ==
    \A i, j \in 1..Len(s) : i < j => ~Precedes(s[j], s[i])

\* the batcher holds a dequeued batch that is not yet fully delivered
BatchHeld == bpc \in {"execute", "executing", "deliver"}

\* C35: a batch is in queue order.  The sequence DequeueN returned, and the
\* payload array handed to the executor, are sorted by priority descending
\* and timestamp ascending, so a HIGH request of a batch stands ahead of
\* every MEDIUM or LOW one; a request that is enqueued after the batch was
\* dequeued does not enter it: the batch held is made of requests enqueued
\* before, and it does not change until it is delivered.
C35_BatchInQueueOrder ==
    /\ [](/\ BatchHeld => QueueOrdered(batch)
          /\ inflight > 0 =>
                payloads = [i \in 1..Len(batch) |-> PayloadOf(batch[i])]
          /\ \A k \in 1..Len(ran) :
                /\ QueueOrdered(ran[k].reqs)
                /\ ran[k].payloads =
                      [i \in 1..Len(ran[k].reqs) |-> PayloadOf(ran[k].reqs[i])]
                /\ \A i \in 1..Len(ran[k].reqs) :
                      rPrio[ran[k].reqs[i]] = Priority_HIGH =>
                          rPrio[ran[k].reqs[1]] = Priority_HIGH
          /\ \A r \in Infers : hpc[r] = "new" => ~InSeq(r, batch))
    /\ [][(BatchHeld /\ BatchHeld') => batch' = batch]_vars
    /\ [][\A r \in Infers : Infer_Enqueue(r) =>
              (batch' = batch /\ payloads' = payloads)]_vars

\* a batch of two ran whose first request was enqueued after its second: a
\* HIGH behind a LOW, or an earlier timestamp behind a later one
C35_Witness ==
    \E k \in 1..Len(ran) :
        /\ Len(ran[k].reqs) = 2
        /\ ran[k].reqs[1] > ran[k].reqs[2]
        /\ Precedes(ran[k].reqs[1], ran[k].reqs[2])

\* ------------------------------------------------- claims on StatsSpec
RECURSIVE Total(_, _)
Total(f, S) ==
    IF S = {} THEN 0
    ELSE LET x == CHOOSE y \in S : TRUE IN f[x] + Total(f, S \ {x})

\* Router.Infer calls made so far, and those that returned success
InferCalls ==
    Total([c \in Calls |-> call[c].doneCalls +
                             IF call[c].pc = "idle" THEN 0 ELSE 1], Calls)

InferSuccesses ==
    Total([c \in Calls |-> call[c].okCalls +
                             IF call[c].ret.kind = "ok" THEN 1 ELSE 0], Calls)

\* no Router.Infer call is in progress
Quiescent == \A c \in Calls : call[c].pc \in {"idle", "done"}

\* C34: routing statistics.  total_requests counts the Router.Infer calls,
\* one each; a worker's served-count goes up by one with each successful
\* forward to it and by nothing else; no counter decreases; when no call is
\* in progress the served-counts add up to the number of calls that
\* returned success, which is at most total_requests.
C34_RoutingStatistics ==
    /\ [](/\ totalRequests = InferCalls
          /\ Quiescent =>
                /\ Total(routingDistribution, Workers) = InferSuccesses
                /\ Total(routingDistribution, Workers) <= totalRequests)
    /\ [][totalRequests' = totalRequests +
              (IF \E c \in Calls : Infer_arrive(c) THEN 1 ELSE 0)]_vars
    /\ [][\A w \in Workers :
              routingDistribution'[w] = routingDistribution[w] +
                  (IF \E c \in Calls : Forward_ok(c) /\ call[c].worker = w
                   THEN 1 ELSE 0)]_vars

\* three calls have returned: two were served by the same worker, one failed
C34_Witness ==
    /\ Quiescent
    /\ totalRequests = MaxServed
    /\ \E w \in Workers : routingDistribution[w] = 2
    /\ Total(routingDistribution, Workers) < totalRequests

\* ------------------------------------- claims on RouterSpec (error kinds)
\* C40 as first stated: a call returns "no healthy workers" only if it made
\* no forward attempt, and a call whose forwards all failed returns "all
\* workers failed" with the last forward error.
C40_NoHealthyOnlyWithoutForward ==
    \A c \in Calls :
        call[c].pc = "done" =>
            /\ call[c].ret.kind = "noHealthy" => call[c].forwards = 0
            /\ (call[c].forwards >= 1 /\ call[c].ret.kind # "ok") =>
                   /\ call[c].ret.kind = "allFailed"
                   /\ call[c].ret.err = call[c].last.out

\* C40: a call returns "no healthy workers" whenever a selection finds no
\* healthy worker, on its first attempt or after one or two failed forwards
\* (the forward error is then not reported); it returns "all workers failed",
\* carrying the last forward error, exactly when three forwards failed.
C40_ErrorKinds ==
    /\ [](\A c \in Calls :
            call[c].pc = "done" =>
                /\ call[c].ret.kind = "noHealthy" <=>
                       (call[c].forwards < maxRetries /\ call[c].last.out # "ok")
                /\ call[c].ret.kind = "noHealthy" => call[c].ret.err = "nil"
                /\ call[c].ret.kind = "allFailed" <=>
                       (call[c].forwards = maxRetries /\ call[c].last.out # "ok")
                /\ call[c].ret.kind = "allFailed" =>
                       /\ call[c].ret.err = call[c].last.out
                       /\ call[c].ret.err \in ForwardErrors(TRUE) \cup ForwardErrors(FALSE))
    /\ [][\A c \in Calls :
            (call[c].pc # "done" /\ call'[c].pc = "done"
               /\ call'[c].ret.kind = "noHealthy") => GetHealthy = {}]_vars

\* a call came back with "no healthy workers" after forwards of its own had
\* failed, the last of them taking the last healthy worker out
C40_Witness ==
    \E c \in Calls :
        /\ call[c].pc = "done"
        /\ call[c].ret.kind = "noHealthy"
        /\ call[c].forwards >= 1
        /\ call[c].last.out \in ForwardErrors(FALSE)
        /\ FailCount[call[c].last.w] >= FailThreshold

\* ------------------------------------- claims on RouterSpec (the poller)
\* the workers whose telemetry fetch is in flight
Queried(fetches) == {p[2] : p \in fetches}

\* the entries that have a telemetry client
Connected == {w \in Workers : InferClient[w]}

C38_OneFetchPerWorker ==
    /\ [](/\ \A p1, p2 \in polling : p1[2] = p2[2] => p1 = p2
          /\ \A p \in polling : p[1] = pollRounds /\ ppc = "polling"
          /\ \A w \in Workers : applied[w] <= pollRounds)
    /\ [][pollAll => polling = {}]_vars
    /\ [][\A w \in Workers :
             applied'[w] # applied[w] => applied'[w] = applied[w] + 1]_vars

\* a fetch of the third round is in flight for a worker whose first two
\* results were applied, while the other worker's third result is in already
C38_Witness ==
    /\ pollRounds = 3
    /\ \E w, x \in Workers :
          /\ <<3, w>> \in polling /\ applied[w] = 2
          /\ applied[x] = 3

\* -------------------------------------------------- claims on RaceSpec
\* C31: UpdateMetrics replaces the telemetry, the fail-count and the healthy
\* flag of an entry as one atomic change: what a reader sees of an entry is
\* the entry as it was before the call or as it is after it, never the new
\* value of one field next to the old value of another.
C31_NoPartialUpdateSeen ==
    view.w # 0 => view.seen \in {view.before, view.after}

====
